---- MODULE Spec2Model ----
(***************************************************************************)
(* Deposit reconciliation and settlement engine of Pump Ponies.            *)
(*                                                                         *)
(* Amounts are integers in units of 0.005 SOL (MinBet 0.01 SOL = 2 units,  *)
(* MaxBet 20 SOL = 4000 units).  Time is counted in ticks of 30 minutes    *)
(* (the deposit expiry window and the default race start offset are one    *)
(* tick).  Winnings and odds are exact rationals [n, d] (the code uses     *)
(* IEEE doubles).  Every "await" of the monitor is a scheduling point.     *)
(***************************************************************************)
EXTENDS Integers, Sequences, FiniteSets, TLC

\* ---------------------------------------------------------------- bounds
MaxDeposits == 2
MaxTx == 2
MaxCycles == 2
MaxTime == 1
MaxPayouts == 3
MaxJobs == 2
MaxSweeps == 3
MaxAccounts == 3

\* ------------------------------------------------------ program constants
MinBet == 2
MaxBet == 4000
HouseEdgePercent == 5
\* the fee reservation of collectFromDepositAddress, in lamports
Fee == 10000
HistoryLimit == 5
NumHorses == 10
DepositExpiry == 1
RaceStartOffset == 1

\* --------------------------------------------------------- input domains
Races == {"race_1"}
Wallets == {"walletA", "walletB"}
HorsePicks == {1, 2}
\* the reconciler specification: below the minimum, the minimum, above the maximum
Senders == {"walletA"}
Amounts == {1, 2, 5000}
Horses == {1}
\* the classification specification: both limits and their neighbours
ClassAmounts == {1, 2, 3, 1000, 3999, 4000, 4001, 5000}
\* the settlement specification: amounts of accepted bets (10 SOL = 2000, 5 SOL = 1000)
BetAmounts == {2, 3, 1000, 2000}
DepositIds == 1..MaxDeposits
CycleIds == 1..MaxCycles
JobIds == 1..MaxJobs

VARIABLES now, races, deposits, ledger, bets, refunds, payouts,
          processedSignatures, cycles, isRunning, intervalHandle, timers,
          isProcessing, jobs, outbox, houseWalletAddress, reply

vars == <<now, races, deposits, ledger, bets, refunds, payouts,
          processedSignatures, cycles, isRunning, intervalHandle, timers,
          isProcessing, jobs, outbox, houseWalletAddress, reply>>

\* the state of PayoutService: its in-flight flag, the invocations of its
\* batch operations, the transactions it has submitted, and the house wallet
\* it was constructed with
dispatchVars == <<isProcessing, jobs, outbox, houseWalletAddress>>

\* the interval timer of DepositMonitor: intervalHandle is the handle it keeps
\* (0: null), timers the intervals that are set in the runtime
timerVars == <<intervalHandle, timers>>

\* ------------------------------------------------------------- helpers
RECURSIVE SetToSeqAsc(_)
SetToSeqAsc(S) ==
    IF S = {} THEN <<>>
    ELSE LET m == CHOOSE x \in S : \A y \in S : x <= y
         IN <<m>> \o SetToSeqAsc(S \ {m})

RECURSIVE SetToSeqDesc(_)
SetToSeqDesc(S) ==
    IF S = {} THEN <<>>
    ELSE LET m == CHOOSE x \in S : \A y \in S : x >= y
         IN <<m>> \o SetToSeqDesc(S \ {m})

RECURSIVE SumAmounts(_)
SumAmounts(s) == IF s = <<>> THEN 0 ELSE Head(s).amount + SumAmounts(Tail(s))

Indices(s) == 1..Len(s)

NoDeposit == [status |-> "none", race |-> "none", horse |-> 0, amount |-> 0,
              sig |-> 0, wallet |-> "none", expires |-> 0,
              private_key |-> "none"]
NoRace == [status |-> "none", winner |-> 0, start_time |-> 0, horses |-> 0]
NoReturn == [processed |-> -1, failed |-> -1]
IdleJob == [kind |-> "none", pc |-> "idle", list |-> <<>>, k |-> 0, amount |-> 0,
            error |-> "none", tx |-> 0, processed |-> 0, failed |-> 0, ret |-> NoReturn]
IdleCycle == [pc |-> "idle", waiting |-> <<>>, i |-> 0, txs |-> <<>>, j |-> 0,
              expired |-> <<>>, k |-> 0, err |-> {}]
Null == [n |-> -1, d |-> 1]

RECURSIVE GCD(_, _)
GCD(a, b) == IF b = 0 THEN a ELSE GCD(b, a % b)

\* the real number n / d (d > 0, n >= 0), in lowest terms
Frac(n, d) == LET g == GCD(n, d) IN [n |-> n \div g, d |-> d \div g]

\* a request value that is not a number (a JSON string such as "abc"): the
\* relational operators convert it to NaN
NotANumber == -1000

\* a < b as JavaScript evaluates it: false as soon as one operand is NaN
\* a request value such as "3abc": not a number either, yet parseInt reads the
\* leading 3
NumericPrefix == -1003

IsNaN(v) == v \in {NotANumber, NumericPrefix}

JSLess(a, b) == ~IsNaN(a) /\ ~IsNaN(b) /\ a < b

\* parseInt: the leading digits of the value, NaN when there are none
ParseInt(v) == IF v = NumericPrefix THEN 3 ELSE v

\* isValidHorseNumber: parseInt of the value is a number from 1 to 10
isValidHorseNumber(num) ==
    LET n == ParseInt(num) IN ~IsNaN(n) /\ n >= 1 /\ n <= 10

\* ------------------------------------------------------------ persistence
\* getWaitingDeposits: status = 'waiting' AND expires_at > now, in rowid order
getWaitingDeposits(deps, t) ==
    SetToSeqAsc({d \in DepositIds : deps[d].status = "waiting" /\ deps[d].expires > t})

\* getExpiredDeposits: status = 'waiting' AND expires_at <= now
getExpiredDeposits(deps, t) ==
    SetToSeqAsc({d \in DepositIds : deps[d].status = "waiting" /\ deps[d].expires <= t})

\* updateDepositStatus: status always; amount, signature, wallet when not null
updateDepositStatus(deps, d, status, amount, sig, wallet) ==
    [deps EXCEPT ![d] = [@ EXCEPT !.status = status, !.amount = amount,
                                  !.sig = sig, !.wallet = wallet]]

\* updateDepositStatus(id, 'expired'): the other columns are left alone
updateDepositStatusOnly(deps, d, status) ==
    [deps EXCEPT ![d].status = status]

getBetsForRace(bs, r) == SelectSeq(bs, LAMBDA b : b.race = r)

\* getRacePoolStats(raceId)[horse].amount
PoolAmount(bs, r, h) ==
    SumAmounts(SelectSeq(bs, LAMBDA b : b.race = r /\ b.horse = h))

\* sum over Object.values(pools) of p.amount
TotalPool(bs, r) == SumAmounts(getBetsForRace(bs, r))

\* ------------------------------------------------------------------ ledger
\* connection.getBalance: what the address has been credited with, less what
\* has been moved out of it (a failed query is answered 0 by
\* WalletService.getBalance).  An outbound transfer moves balance - fee and pays
\* the fee, far below one unit, out of the same balance.
\* A transaction that failed on the ledger (err) names the addresses it was to
\* credit and changes no balance.
getBalance(led, d) ==
    LET Credit[n \in 0..Len(led)] ==
            IF n = 0 THEN 0
            ELSE Credit[n - 1] + (IF led[n].err THEN 0 ELSE led[n].credits[d])
    IN Credit[Len(led)]

\* getSignaturesForAddress(address, {limit}): the transactions that touch the
\* address, newest first, at most limit
getRecentTransactions(led, d, limit) ==
    LET all == SetToSeqDesc({s \in Indices(led) : led[s].credits[d] # 0})
    IN IF Len(all) <= limit THEN all ELSE SubSeq(all, 1, limit)

NoTransfer == [fromAddress |-> "none", amount |-> 0, signature |-> 0]

\* parseSOLTransfer: nothing for a failed transaction, else the target's
\* balance delta when it is positive
parseSOLTransfer(led, s, d) ==
    IF led[s].err \/ led[s].credits[d] <= 0 THEN NoTransfer
    ELSE [fromAddress |-> led[s].from, amount |-> led[s].credits[d], signature |-> s]

\* ------------------------------------------- WalletService.parseSOLTransfer
\* A transaction as getParsedTransaction answers it: kind "missing" is the null
\* answer, "failed" has meta.err set; accountKeys is the account list,
\* preBalances and postBalances the balance of each account before and after,
\* signatures the signatures of the transaction.
Accounts == Wallets \cup {"deposit", "system"}

TxKinds == {"missing", "failed", "ok"}

\* accountKeys.findIndex: the first position of the address, 0 when absent
findIndex(keys, a) ==
    IF \E i \in Indices(keys) : keys[i] = a
    THEN CHOOSE i \in Indices(keys) :
            keys[i] = a /\ \A k \in Indices(keys) : keys[k] = a => i <= k
    ELSE 0

\* the sender taken to be the last account whose balance decreased
senderOf_LastDecreased(tx, toIndex) ==
    LET down == {i \in Indices(tx.accountKeys) :
                    i # toIndex /\ tx.postBalances[i] - tx.preBalances[i] < 0}
    IN IF down = {} THEN "none"
       ELSE tx.accountKeys[CHOOSE i \in down : \A k \in down : i >= k]

\* the loop over the account list: the first account, other than the target,
\* whose balance decreased; null when there is none
senderOf(tx, toIndex) ==
    LET down == {i \in Indices(tx.accountKeys) :
                    i # toIndex /\ tx.postBalances[i] - tx.preBalances[i] < 0}
    IN IF down = {} THEN "none"
       ELSE tx.accountKeys[CHOOSE i \in down : \A k \in down : i <= k]

\* parseSOLTransfer on the transaction itself
parseSOLTransferOf(tx, toAddress) ==
    IF tx.kind # "ok" THEN NoTransfer
    ELSE LET toIndex == findIndex(tx.accountKeys, toAddress)
         IN IF toIndex = 0 THEN NoTransfer
            ELSE LET amountLamports == tx.postBalances[toIndex] - tx.preBalances[toIndex]
                 IN IF amountLamports <= 0 THEN NoTransfer
                    ELSE [fromAddress |-> senderOf(tx, toIndex),
                          amount |-> amountLamports,
                          signature |-> tx.signatures[1]]

\* ------------------------------------------------- DepositMonitor.processDeposit
\* a ladder that also turns away a transfer of exactly the minimum
DepositStatusFor_MinExclusive(amount, raceStatus) ==
    IF amount <= MinBet THEN "rejected_too_small"
    ELSE IF amount > MaxBet THEN "rejected_over_max"
    ELSE IF raceStatus = "none" \/ raceStatus # "open" THEN "rejected_race_closed"
    ELSE "confirmed"

\* the validation ladder of processDeposit: minimum, maximum, race open
DepositStatusFor(amount, raceStatus) ==
    IF amount < MinBet THEN "rejected_too_small"
    ELSE IF amount > MaxBet THEN "rejected_over_max"
    ELSE IF raceStatus = "none" \/ raceStatus # "open" THEN "rejected_race_closed"
    ELSE "confirmed"

\* queueRefund: one row in refunds, status 'pending', for the transfer's sender.
\* sig is not a column: it records which transfer the row was queued for.
queueRefund(rfs, d, transfer) ==
    Append(rfs, [dep |-> d, wallet |-> transfer.fromAddress,
                 amount |-> transfer.amount, status |-> "pending",
                 sig |-> transfer.signature])

\* odds at placement turned upside down
OddsAtPlacement_Inverse(bs, r, h, amount) ==
    Frac(PoolAmount(bs, r, h) + amount, TotalPool(bs, r) + amount)

\* odds at placement with the divisor left without the amount of the bet
OddsAtPlacement_PoolOnly(bs, r, h, amount) ==
    Frac(TotalPool(bs, r) + amount,
         IF PoolAmount(bs, r, h) = 0 THEN 1 ELSE PoolAmount(bs, r, h))

\* odds at placement: (total pool + amount) / (horse pool + amount)
OddsAtPlacement(bs, r, h, amount) ==
    Frac(TotalPool(bs, r) + amount, PoolAmount(bs, r, h) + amount)

\* createBet: one row in bets built from the deposit row and the transfer
createBet(bs, dep, d, transfer) ==
    Append(bs, [race |-> dep.race, horse |-> dep.horse, dep |-> d,
                wallet |-> transfer.fromAddress, amount |-> transfer.amount,
                sig |-> transfer.signature,
                odds |-> OddsAtPlacement(bs, dep.race, dep.horse, transfer.amount),
                winnings |-> Null, payout_status |-> "pending"])

\* processDeposit(deposit, transfer): the status write, then a refund or a bet.
\* Runs without a scheduling point (queueRefund has no await in its body).
processDeposit(deps, bs, rfs, rcs, d, transfer) ==
    LET st == DepositStatusFor(transfer.amount, rcs[deps[d].race].status)
        deps2 == updateDepositStatus(deps, d, st, transfer.amount,
                                     transfer.signature, transfer.fromAddress)
    IN IF st = "confirmed"
       THEN [deposits |-> deps2, bets |-> createBet(bs, deps[d], d, transfer),
             refunds |-> rfs]
       ELSE [deposits |-> deps2, bets |-> bs,
             refunds |-> queueRefund(rfs, d, transfer)]

\* ------------------------------------------------ DepositMonitor.checkDeposits
\* control after one address is done: the next address, else the expiry sweep
NextDeposit(cy, deps, t) ==
    IF cy.i < Len(cy.waiting)
    THEN [cy EXCEPT !.pc = "balance", !.i = cy.i + 1, !.txs = <<>>, !.j = 0]
    ELSE LET e == getExpiredDeposits(deps, t)
         IN IF e = <<>> THEN IdleCycle
            ELSE [IdleCycle EXCEPT !.pc = "cleanup", !.expired = e, !.k = 1]

\* the for loop without its test of processedSignatures
ScanFrom_IgnoresProcessed(cy, j, deps, t, ps) ==
    IF j > Len(cy.txs) THEN NextDeposit(cy, deps, t)
    ELSE [cy EXCEPT !.pc = "tx", !.j = j]

\* the for loop over transactions from index j: skip processed signatures,
\* then await getTransaction of the first one left
ScanFrom(cy, j, deps, t, ps) ==
    LET cand == {x \in j..Len(cy.txs) : cy.txs[x] \notin ps}
    IN IF cand = {} THEN NextDeposit(cy, deps, t)
       ELSE [cy EXCEPT !.pc = "tx", !.j = CHOOSE x \in cand : \A y \in cand : x <= y]

\* the timer of a monitor as Init finds it: none before start(), the one that
\* start() has set afterwards
InitTimer ==
    /\ intervalHandle = (IF isRunning THEN 1 ELSE 0)
    /\ timers = (IF isRunning THEN {1} ELSE {})

IdleSlots == {c \in CycleIds : cycles[c].pc = "idle"}
FreeSlot == CHOOSE c \in IdleSlots : \A c2 \in IdleSlots : c <= c2

\* checkDeposits up to its first await: the snapshot of waiting addresses
checkDeposits(cys, c, deps, t) ==
    LET w == getWaitingDeposits(deps, t)
    IN IF w = <<>> THEN cys
       ELSE [cys EXCEPT ![c] = [IdleCycle EXCEPT !.pc = "balance", !.waiting = w, !.i = 1]]

\* the fields of DepositMonitor that start() and stop() work on
Monitor == [isRunning |-> isRunning, cycles |-> cycles,
            intervalHandle |-> intervalHandle, timers |-> timers]

\* setInterval: a handle that no interval set in the runtime has
NewTimer(ts) == CHOOSE h \in 1..(Cardinality(ts) + 1) : h \notin ts

\* start() without the look at isRunning
start_NoGuard(m, c, deps, t) ==
    LET h == NewTimer(m.timers)
    IN [isRunning |-> TRUE, cycles |-> checkDeposits(m.cycles, c, deps, t),
        intervalHandle |-> h, timers |-> m.timers \cup {h}]

\* start(): nothing while running; otherwise isRunning, one immediate cycle (in
\* slot c), then the interval timer
start(m, c, deps, t) ==
    IF m.isRunning THEN m
    ELSE LET h == NewTimer(m.timers)
         IN [isRunning |-> TRUE, cycles |-> checkDeposits(m.cycles, c, deps, t),
             intervalHandle |-> h, timers |-> m.timers \cup {h}]

\* stop(): nothing while not running; otherwise isRunning is cleared and the
\* interval of the handle, when there is one, is cleared with the handle
stop(m) ==
    IF ~m.isRunning THEN m
    ELSE [m EXCEPT !.isRunning = FALSE,
                   !.timers = IF m.intervalHandle # 0 THEN @ \ {m.intervalHandle} ELSE @,
                   !.intervalHandle = 0]

Start ==
    /\ IdleSlots # {}
    /\ LET m == start(Monitor, FreeSlot, deposits, now)
       IN /\ isRunning' = m.isRunning
          /\ cycles' = m.cycles
          /\ intervalHandle' = m.intervalHandle
          /\ timers' = m.timers
    /\ UNCHANGED dispatchVars
    /\ UNCHANGED reply
    /\ UNCHANGED <<now, races, deposits, ledger, bets, refunds, payouts,
                   processedSignatures>>

Stop ==
    /\ LET m == stop(Monitor)
       IN /\ isRunning' = m.isRunning
          /\ intervalHandle' = m.intervalHandle
          /\ timers' = m.timers
    /\ UNCHANGED dispatchVars
    /\ UNCHANGED reply
    /\ UNCHANGED <<now, races, deposits, ledger, bets, refunds, payouts,
                   processedSignatures, cycles>>

\* the callback of an interval that is set: checkDeposits() whatever the
\* earlier cycles do (with no waiting address the call returns at once and
\* changes nothing)
TimerFire ==
    /\ timers # {}
    /\ IdleSlots # {}
    /\ getWaitingDeposits(deposits, now) # <<>>
    /\ cycles' = checkDeposits(cycles, FreeSlot, deposits, now)
    /\ UNCHANGED dispatchVars
    /\ UNCHANGED timerVars
    /\ UNCHANGED reply
    /\ UNCHANGED <<now, races, deposits, ledger, bets, refunds, payouts,
                   processedSignatures, isRunning>>

\* checkSingleDeposit resumes from await getBalance
CycleBalance(c) ==
    /\ cycles[c].pc = "balance"
    /\ LET cy == cycles[c]
           d == cy.waiting[cy.i]
       IN cycles' = [cycles EXCEPT ![c] =
                        IF getBalance(ledger, d) <= 0
                        THEN NextDeposit(cy, deposits, now)
                        ELSE [cy EXCEPT !.pc = "history"]]
    /\ UNCHANGED dispatchVars
    /\ UNCHANGED timerVars
    /\ UNCHANGED reply
    /\ UNCHANGED <<now, races, deposits, ledger, bets, refunds, payouts,
                   processedSignatures, isRunning>>

\* checkSingleDeposit resumes from await getRecentTransactions(address, 5)
CycleHistory(c) ==
    /\ cycles[c].pc = "history"
    /\ LET cy == cycles[c]
           d == cy.waiting[cy.i]
           cy2 == [cy EXCEPT !.txs = getRecentTransactions(ledger, d, HistoryLimit)]
       IN cycles' = [cycles EXCEPT ![c] =
                        ScanFrom(cy2, 1, deposits, now, processedSignatures)]
    /\ UNCHANGED dispatchVars
    /\ UNCHANGED timerVars
    /\ UNCHANGED reply
    /\ UNCHANGED <<now, races, deposits, ledger, bets, refunds, payouts,
                   processedSignatures, isRunning>>

\* checkSingleDeposit resumes from await getTransaction: classify, and hand a
\* valid transfer to processDeposit
CycleTx(c) ==
    /\ cycles[c].pc = "tx"
    /\ LET cy == cycles[c]
           d == cy.waiting[cy.i]
           transfer == parseSOLTransfer(ledger, cy.txs[cy.j], d)
           out == processDeposit(deposits, bets, refunds, races, d, transfer)
       IN IF transfer # NoTransfer /\ transfer.amount > 0
          THEN /\ deposits' = out.deposits
               /\ bets' = out.bets
               /\ refunds' = out.refunds
               /\ cycles' = [cycles EXCEPT ![c].pc = "processed"]
          ELSE /\ cycles' = [cycles EXCEPT ![c] =
                                ScanFrom(cy, cy.j + 1, deposits, now, processedSignatures)]
               /\ UNCHANGED <<deposits, bets, refunds>>
    /\ UNCHANGED dispatchVars
    /\ UNCHANGED timerVars
    /\ UNCHANGED reply
    /\ UNCHANGED <<now, races, ledger, payouts, processedSignatures, isRunning>>

\* checkSingleDeposit resumes from await processDeposit: record the signature, break
CycleProcessed(c) ==
    /\ cycles[c].pc = "processed"
    /\ LET cy == cycles[c]
       IN /\ processedSignatures' = processedSignatures \cup {cy.txs[cy.j]}
          /\ cycles' = [cycles EXCEPT ![c] = NextDeposit(cy, deposits, now)]
    /\ UNCHANGED dispatchVars
    /\ UNCHANGED timerVars
    /\ UNCHANGED reply
    /\ UNCHANGED <<now, races, deposits, ledger, bets, refunds, payouts, isRunning>>

\* cleanupExpiredDeposits resumes from await getBalance
CycleCleanup(c) ==
    /\ cycles[c].pc = "cleanup"
    /\ LET cy == cycles[c]
           d == cy.expired[cy.k]
       IN /\ deposits' = IF getBalance(ledger, d) > 0 THEN deposits
                         ELSE updateDepositStatusOnly(deposits, d, "expired")
          /\ cycles' = [cycles EXCEPT ![c] =
                           IF cy.k < Len(cy.expired) THEN [cy EXCEPT !.k = cy.k + 1]
                           ELSE IdleCycle]
    /\ UNCHANGED dispatchVars
    /\ UNCHANGED timerVars
    /\ UNCHANGED reply
    /\ UNCHANGED <<now, races, ledger, bets, refunds, payouts,
                   processedSignatures, isRunning>>


\* ---------------------------------------------- ledger queries that fail
\* WalletService logs the error of a failed query and answers 0, [] or null.
\* err keeps, while the cycle is in its loop, the addresses it logged an error for.
Logged(cy2, d, cy) ==
    IF cy2.pc \in {"idle", "cleanup"} THEN cy2
    ELSE [cy2 EXCEPT !.err = cy.err \cup {d}]

\* await getBalance failed: the balance reads 0 and the address is left
CycleBalanceFails(c) ==
    /\ cycles[c].pc = "balance"
    /\ LET cy == cycles[c]
           d == cy.waiting[cy.i]
       IN cycles' = [cycles EXCEPT ![c] = Logged(NextDeposit(cy, deposits, now), d, cy)]
    /\ UNCHANGED dispatchVars
    /\ UNCHANGED timerVars
    /\ UNCHANGED reply
    /\ UNCHANGED <<now, races, deposits, ledger, bets, refunds, payouts,
                   processedSignatures, isRunning>>

\* await getRecentTransactions failed: the history reads empty
CycleHistoryFails(c) ==
    /\ cycles[c].pc = "history"
    /\ LET cy == cycles[c]
           d == cy.waiting[cy.i]
       IN cycles' = [cycles EXCEPT ![c] = Logged(NextDeposit(cy, deposits, now), d, cy)]
    /\ UNCHANGED dispatchVars
    /\ UNCHANGED timerVars
    /\ UNCHANGED reply
    /\ UNCHANGED <<now, races, deposits, ledger, bets, refunds, payouts,
                   processedSignatures, isRunning>>

\* await getTransaction failed: the transaction reads null, parseSOLTransfer
\* gives nothing, and the loop goes on to the next signature of the history
CycleTxFails(c) ==
    /\ cycles[c].pc = "tx"
    /\ LET cy == cycles[c]
           d == cy.waiting[cy.i]
       IN cycles' = [cycles EXCEPT ![c] =
                        Logged(ScanFrom(cy, cy.j + 1, deposits, now, processedSignatures),
                               d, cy)]
    /\ UNCHANGED dispatchVars
    /\ UNCHANGED timerVars
    /\ UNCHANGED reply
    /\ UNCHANGED <<now, races, deposits, ledger, bets, refunds, payouts,
                   processedSignatures, isRunning>>

\* cleanupExpiredDeposits, await getBalance failed: the balance reads 0
CycleCleanupFails(c) ==
    /\ cycles[c].pc = "cleanup"
    /\ LET cy == cycles[c]
           d == cy.expired[cy.k]
       IN /\ deposits' = updateDepositStatusOnly(deposits, d, "expired")
          /\ cycles' = [cycles EXCEPT ![c] =
                           IF cy.k < Len(cy.expired) THEN [cy EXCEPT !.k = cy.k + 1]
                           ELSE IdleCycle]
    /\ UNCHANGED dispatchVars
    /\ UNCHANGED timerVars
    /\ UNCHANGED reply
    /\ UNCHANGED <<now, races, ledger, bets, refunds, payouts,
                   processedSignatures, isRunning>>

\* ------------------------------------------------ DepositMonitor.calculateWinnings
\* winnings that share out the whole losing pool, the house edge forgotten
WinningsOf_NoHouseEdge(b, winningHorse, totalPool, winningPool) ==
    IF b.horse = winningHorse
    THEN Frac((totalPool - winningPool) * b.amount, winningPool)
    ELSE Frac(0, 1)

\* winnings of one bet: distributablePool * (amount / winningPool) for a winner,
\* 0 for a loser, with distributablePool = losingPool * (1 - houseEdge)
WinningsOf(b, winningHorse, totalPool, winningPool) ==
    IF b.horse = winningHorse
    THEN Frac((totalPool - winningPool) * (100 - HouseEdgePercent) * b.amount,
              100 * winningPool)
    ELSE Frac(0, 1)

\* totalPayout = bet.amount + winnings
TotalPayoutOf(b, winnings) == Frac(b.amount * winnings.d + winnings.n, winnings.d)

\* the loop of calculateWinnings over the bets of the race, in bet order:
\* updateBetWinnings on every bet, createPayout for every winner
calculateWinnings(bs, pys, r, winningHorse) ==
    LET totalPool == TotalPool(bs, r)
        winningPool == PoolAmount(bs, r, winningHorse)
        W(b) == WinningsOf(b, winningHorse, totalPool, winningPool)
        NewPayouts[n \in 0..Len(bs)] ==
            IF n = 0 THEN <<>>
            ELSE IF bs[n].race = r /\ bs[n].horse = winningHorse
                 THEN Append(NewPayouts[n - 1],
                             [bet |-> n, wallet |-> bs[n].wallet,
                              amount |-> TotalPayoutOf(bs[n], W(bs[n])),
                              status |-> "pending", signature |-> 0,
                              error |-> "none"])
                 ELSE NewPayouts[n - 1]
    IN [bets |-> [n \in Indices(bs) |->
                    IF bs[n].race = r THEN [bs[n] EXCEPT !.winnings = W(bs[n])]
                    ELSE bs[n]],
        payouts |-> pys \o NewPayouts[Len(bs)]]

\* the winner is recorded but the race is not marked completed
setRaceWinner_KeepsStatus(rcs, r, winner) ==
    [rcs EXCEPT ![r].winner = winner]

\* setRaceWinner: winner, status 'completed'
setRaceWinner(rcs, r, winner) ==
    [rcs EXCEPT ![r].winner = winner, ![r].status = "completed"]

\* updateRaceStatus: the status column, whatever it was
updateRaceStatus(rcs, r, status) == [rcs EXCEPT ![r].status = status]

\* ------------------------------------------------------- SIGINT / SIGTERM
\* the signal handler: depositMonitor.stop(), db.close(), server.close(),
\* process.exit(0), all in one synchronous run.  What the process held in
\* memory ends with it: the continuations of the cycles and batch invocations in
\* flight, the in-flight flag and the processed signatures.  The database and
\* the transactions already submitted stay as they are.
Shutdown ==
    /\ isRunning
    /\ isRunning' = FALSE
    /\ cycles' = [c \in CycleIds |-> IdleCycle]
    /\ processedSignatures' = {}
    /\ isProcessing' = FALSE
    /\ jobs' = [j \in JobIds |-> IdleJob]
    /\ intervalHandle' = 0
    /\ timers' = {}
    /\ UNCHANGED <<now, races, deposits, ledger, bets, refunds, payouts, outbox,
                   houseWalletAddress, reply>>

\* ------------------------------------------------------------ admin requests
\* POST /admin/race/create
CreateRace(r) ==
    /\ races[r].status = "none"
    /\ races' = [races EXCEPT ![r] = [status |-> "pending", winner |-> 0,
                                      start_time |-> now + RaceStartOffset,
                                      horses |-> NumHorses]]
    /\ UNCHANGED dispatchVars
    /\ UNCHANGED timerVars
    /\ UNCHANGED reply
    /\ UNCHANGED <<now, deposits, ledger, bets, refunds, payouts,
                   processedSignatures, cycles, isRunning>>

\* POST /admin/race/open: any existing race, whatever its status (opening an
\* open race changes nothing)
OpenRace(r) ==
    /\ races[r].status \notin {"none", "open"}
    /\ races' = updateRaceStatus(races, r, "open")
    /\ UNCHANGED dispatchVars
    /\ UNCHANGED timerVars
    /\ UNCHANGED reply
    /\ UNCHANGED <<now, deposits, ledger, bets, refunds, payouts,
                   processedSignatures, cycles, isRunning>>

\* POST /admin/race/close: any existing race, whatever its status
CloseRace(r) ==
    /\ races[r].status \notin {"none", "closed"}
    /\ races' = updateRaceStatus(races, r, "closed")
    /\ UNCHANGED dispatchVars
    /\ UNCHANGED timerVars
    /\ UNCHANGED reply
    /\ UNCHANGED <<now, deposits, ledger, bets, refunds, payouts,
                   processedSignatures, cycles, isRunning>>

WinnersOf(bs, r, w) == {n \in Indices(bs) : bs[n].race = r /\ bs[n].horse = w}

\* POST /admin/race/end: winner present, race found, winner neither below 1 nor
\* above the number of horses, then calculateWinnings and setRaceWinner.  A
\* request turned away returns before any write.
EndRace(r, winner) ==
    /\ winner # 0
    /\ races[r].status # "none"
    /\ ~(JSLess(winner, 1) \/ JSLess(races[r].horses, winner))
    /\ Len(payouts) + Cardinality(WinnersOf(bets, r, winner)) <= MaxPayouts
    /\ LET res == calculateWinnings(bets, payouts, r, winner)
       IN /\ bets' = res.bets
          /\ payouts' = res.payouts
    /\ races' = setRaceWinner(races, r, winner)
    /\ UNCHANGED dispatchVars
    /\ UNCHANGED timerVars
    /\ UNCHANGED reply
    /\ UNCHANGED <<now, deposits, ledger, refunds, processedSignatures, cycles,
                   isRunning>>

\* DELETE /admin/race/:id without the look at the bets
DeleteRace_NoBetCheck(r) ==
    /\ IF races[r].status = "none"
       THEN /\ reply' = "Race not found"
            /\ UNCHANGED races
       ELSE IF \E d \in DepositIds : deposits[d].race = r
       THEN /\ reply' = "FOREIGN KEY constraint failed"
            /\ races' = [races EXCEPT ![r].horses = 0]
       ELSE /\ reply' = "deleted"
            /\ races' = [races EXCEPT ![r] = NoRace]
    /\ UNCHANGED dispatchVars
    /\ UNCHANGED timerVars
    /\ UNCHANGED <<now, deposits, ledger, bets, refunds, payouts,
                   processedSignatures, cycles, isRunning>>

\* DELETE /admin/race/:id: the race is looked up, a race with bets is refused,
\* then the horses and the race are deleted by two statements.  The handler has
\* no await.  With foreign_keys = ON the second statement throws while a deposit
\* address still names the race; the horses are gone by then.
DeleteRace(r) ==
    /\ IF races[r].status = "none"
       THEN /\ reply' = "Race not found"
            /\ UNCHANGED races
       ELSE IF getBetsForRace(bets, r) # <<>>
       THEN /\ reply' = "Cannot delete race with existing bets"
            /\ UNCHANGED races
       ELSE IF \E d \in DepositIds : deposits[d].race = r
       THEN /\ reply' = "FOREIGN KEY constraint failed"
            /\ races' = [races EXCEPT ![r].horses = 0]
       ELSE /\ reply' = "deleted"
            /\ races' = [races EXCEPT ![r] = NoRace]
    /\ UNCHANGED dispatchVars
    /\ UNCHANGED timerVars
    /\ UNCHANGED <<now, deposits, ledger, bets, refunds, payouts,
                   processedSignatures, cycles, isRunning>>

\* ------------------------------------------------------ POST /bet/deposit-address
FreeDeposits == {d \in DepositIds : deposits[d].status = "none"}

\* the ENCRYPTION_SECRET the server runs with: none, one shorter than 32
\* characters, or a proper one
Secrets == {"none", "short", "proper"}

\* encryptPrivateKey throws unless the secret has at least 32 characters
encryptPrivateKey(secret) == IF secret = "proper" THEN "encrypted" ELSE "throws"

\* createDepositAddress: with a secret set the key is encrypted, and when
\* encryptPrivateKey throws the catch stores the key as it is; the row is
\* inserted with status 'waiting'
createDepositAddress(deps, d, r, h, expiresAt, secret) ==
    LET storedKey == IF secret # "none" /\ encryptPrivateKey(secret) # "throws"
                     THEN encryptPrivateKey(secret)
                     ELSE "plaintext"
    IN [deps EXCEPT ![d] = [NoDeposit EXCEPT !.status = "waiting", !.race = r,
                                             !.horse = h, !.expires = expiresAt,
                                             !.private_key = storedKey]]

\* the handler behind validateRequest: horse_number passes isValidHorseNumber,
\* the race is found and open, now is before its start, horse_number is neither
\* below 1 nor above the number of horses; then a new address (the lowest free
\* identifier) is stored.  A request turned away returns before any write.
AllocateKey(r, h, secret) ==
    /\ isValidHorseNumber(h)
    /\ races[r].status = "open"
    /\ ~(races[r].start_time # 0 /\ now >= races[r].start_time)
    /\ ~(JSLess(h, 1) \/ JSLess(races[r].horses, h))
    /\ FreeDeposits # {}
    /\ LET d == CHOOSE x \in FreeDeposits : \A y \in FreeDeposits : x <= y
       IN deposits' = createDepositAddress(deposits, d, r, h, now + DepositExpiry,
                                           secret)
    /\ UNCHANGED dispatchVars
    /\ UNCHANGED timerVars
    /\ UNCHANGED reply
    /\ UNCHANGED <<now, races, ledger, bets, refunds, payouts,
                   processedSignatures, cycles, isRunning>>

\* the same request on a server whose secret is a proper one
Allocate(r, h) == AllocateKey(r, h, "proper")

\* ---------------------------------------------------------------- environment
\* a transaction lands on the ledger: one sender, the same amount credited to
\* each of one or two deposit addresses
LedgerTransfer(from, amount, targets) ==
    /\ Len(ledger) < MaxTx
    /\ targets # {}
    /\ Cardinality(targets) <= 2
    /\ \A d \in targets : deposits[d].status # "none"
    /\ ledger' = Append(ledger, [from |-> from, err |-> FALSE,
                                 credits |-> [d \in DepositIds |->
                                                IF d \in targets THEN amount ELSE 0]])
    /\ UNCHANGED dispatchVars
    /\ UNCHANGED timerVars
    /\ UNCHANGED reply
    /\ UNCHANGED <<now, races, deposits, bets, refunds, payouts,
                   processedSignatures, cycles, isRunning>>

\* the wall clock advances
Tick ==
    /\ now < MaxTime
    /\ now' = now + 1
    /\ UNCHANGED dispatchVars
    /\ UNCHANGED timerVars
    /\ UNCHANGED reply
    /\ UNCHANGED <<races, deposits, ledger, bets, refunds, payouts,
                   processedSignatures, cycles, isRunning>>

\* ------------------------------------------------------------ PayoutService
\* constructor: isProcessing = false, nothing in flight, nothing submitted
InitDispatch ==
    /\ isProcessing = FALSE
    /\ jobs = [j \in JobIds |-> IdleJob]
    /\ outbox = <<>>
    /\ houseWalletAddress = "none"

monitorVars == <<now, races, deposits, processedSignatures, cycles, isRunning,
                 intervalHandle, timers>>

\* a transaction handed to sendAndConfirmTransaction: dep is the deposit address
\* it debits (0: the treasury), amount what it moves out, ref the Payout, Refund
\* or address it was built for
Submission(kind, ref, dep, to, amount, j) ==
    [kind |-> kind, ref |-> ref, dep |-> dep, to |-> to, amount |-> amount,
     house |-> 0, status |-> "sent", job |-> j]

\* a batch operation returns {processed, failed}
Return(job) == [IdleJob EXCEPT !.ret = [processed |-> job.processed, failed |-> job.failed]]

\* ------------------------------------------- PayoutService.processAllPayouts
\* a query that also brings back the payouts that failed
getPendingPayouts_WithFailed(pys) ==
    SetToSeqAsc({p \in Indices(pys) : pys[p].status \in {"pending", "failed"}})

\* getPendingPayouts: status = 'pending', in creation order
getPendingPayouts(pys) ==
    SetToSeqAsc({p \in Indices(pys) : pys[p].status = "pending"})

\* updatePayoutStatus(id, status, txSignature, errorMessage): the signature
\* (0: null) and the message ("none": null) are written only when given
updatePayoutStatus(pys, p, status, txSignature, errorMessage) ==
    [pys EXCEPT ![p].status = status,
                ![p].signature = IF txSignature # 0 THEN txSignature ELSE @,
                ![p].error = IF errorMessage # "none" THEN errorMessage ELSE @]

\* new PublicKey(address): the addresses that are public keys
isValidAddress(a) == a \in Wallets

\* what the invocation returns when an exception leaves it
Thrown == [processed |-> -2, failed |-> -2]

\* a finally block that is passed over by an exception
Finally_OnReturnOnly(flag) == flag

\* the finally block of processAllPayouts: this.isProcessing = false
Finally(flag) == FALSE

\* a loop that gives up the batch at the first failure
NextPayout_StopAtFailure(job) ==
    IF job.k < Len(job.list) /\ job.failed = 0
    THEN [job EXCEPT !.pc = "marking", !.k = job.k + 1]
    ELSE Return(job)

\* the for loop of processAllPayouts: the next payout, whose first await is the
\* write of 'processing'; after the last one the finally block and the return
NextPayout(job) ==
    IF job.k < Len(job.list) THEN [job EXCEPT !.pc = "marking", !.k = job.k + 1]
    ELSE Return(job)

\* an invocation that does not look at the in-flight flag
PayoutsStart_NoFlag(j) ==
    /\ jobs[j].pc = "idle"
    /\ isProcessing' = TRUE
    /\ jobs' = [jobs EXCEPT ![j] = [IdleJob EXCEPT !.kind = "payouts", !.pc = "pending",
                                                   !.ret = jobs[j].ret]]
    /\ UNCHANGED <<monitorVars, reply, houseWalletAddress, ledger, bets, refunds, payouts, outbox>>

\* POST /admin/payouts/process: processAllPayouts up to its first await (the
\* treasury key is configured).  While isProcessing is set it returns {0, 0}.
PayoutsStart(j) ==
    /\ jobs[j].pc = "idle"
    /\ IF isProcessing
       THEN /\ jobs' = [jobs EXCEPT ![j].ret = [processed |-> 0, failed |-> 0]]
            /\ UNCHANGED isProcessing
       ELSE /\ isProcessing' = TRUE
            /\ jobs' = [jobs EXCEPT ![j] =
                          [IdleJob EXCEPT !.kind = "payouts", !.pc = "pending",
                                          !.ret = jobs[j].ret]]
    /\ UNCHANGED <<monitorVars, reply, houseWalletAddress, ledger, bets, refunds, payouts, outbox>>

\* resumes from await getPendingPayouts; getMasterWalletBalance is asked next
PayoutsPending(j) ==
    /\ jobs[j].kind = "payouts" /\ jobs[j].pc = "pending"
    /\ jobs' = [jobs EXCEPT ![j].list = getPendingPayouts(payouts), ![j].pc = "balance"]
    /\ UNCHANGED <<monitorVars, reply, houseWalletAddress, ledger, bets, refunds, payouts, outbox, isProcessing>>

\* resumes from await getMasterWalletBalance, which answered balance (0 when
\* its query failed): a shortfall is only logged, and the loop is entered
PayoutsBalanceAt(j, balance) ==
    /\ jobs[j].kind = "payouts" /\ jobs[j].pc = "balance"
    /\ LET job == NextPayout([jobs[j] EXCEPT !.amount = balance])
       IN /\ jobs' = [jobs EXCEPT ![j] = job]
          /\ isProcessing' = IF job.pc = "idle" THEN FALSE ELSE isProcessing
    /\ UNCHANGED <<monitorVars, reply, houseWalletAddress, ledger, bets, refunds, payouts, outbox>>

\* the same with a treasury that answers 0
PayoutsBalance(j) == PayoutsBalanceAt(j, 0)

\* processSinglePayout resumes from await updatePayoutStatus(id, 'processing'):
\* new PublicKey takes the recipient and getLatestBlockhash is asked next, or
\* it throws and the catch block of processAllPayouts goes on to write 'failed'
PayoutMarked(j) ==
    /\ jobs[j].kind = "payouts" /\ jobs[j].pc = "marking"
    /\ payouts' = updatePayoutStatus(payouts, jobs[j].list[jobs[j].k], "processing",
                                     0, "none")
    /\ jobs' = [jobs EXCEPT ![j] =
                  IF isValidAddress(payouts[jobs[j].list[jobs[j].k]].wallet)
                  THEN [@ EXCEPT !.pc = "blockhash"]
                  ELSE [@ EXCEPT !.pc = "failing", !.error = "Invalid recipient address"]]
    /\ UNCHANGED <<monitorVars, reply, houseWalletAddress, ledger, bets, refunds, outbox, isProcessing>>

\* processSinglePayout resumes from await getLatestBlockhash: it answers and the
\* signed transfer is submitted, or it throws and the catch block of
\* processAllPayouts goes on to write 'failed'
PayoutBlockhash(j) ==
    /\ jobs[j].kind = "payouts" /\ jobs[j].pc = "blockhash"
    /\ LET p == jobs[j].list[jobs[j].k]
       IN \E ok \in BOOLEAN :
            IF ok
            THEN /\ outbox' = Append(outbox, Submission("payout", p, 0, payouts[p].wallet,
                                                        payouts[p].amount, j))
                 /\ jobs' = [jobs EXCEPT ![j].pc = "send", ![j].tx = Len(outbox) + 1]
            ELSE /\ jobs' = [jobs EXCEPT ![j].pc = "failing",
                                         ![j].error = "failed to get recent blockhash"]
                 /\ UNCHANGED outbox
    /\ UNCHANGED <<monitorVars, reply, houseWalletAddress, ledger, bets, refunds, payouts, isProcessing>>

\* processSinglePayout resumes from await sendAndConfirmTransaction: confirmed,
\* or thrown (the transfer did not go through)
PayoutSend(j) ==
    /\ jobs[j].kind = "payouts" /\ jobs[j].pc = "send"
    /\ \E ok \in BOOLEAN :
         /\ outbox' = [outbox EXCEPT ![jobs[j].tx].status =
                          IF ok THEN "landed" ELSE "dropped"]
         /\ jobs' = [jobs EXCEPT ![j].pc = IF ok THEN "completing" ELSE "failing",
                                 ![j].error = IF ok THEN @ ELSE "Transaction was not confirmed"]
    /\ UNCHANGED <<monitorVars, reply, houseWalletAddress, ledger, bets, refunds, payouts, isProcessing>>

\* processSinglePayout resumes from await updatePayoutStatus(id, 'completed');
\* the update of the bet is asked next
PayoutCompleted(j) ==
    /\ jobs[j].kind = "payouts" /\ jobs[j].pc = "completing"
    /\ payouts' = updatePayoutStatus(payouts, jobs[j].list[jobs[j].k], "completed",
                                     jobs[j].tx, "none")
    /\ jobs' = [jobs EXCEPT ![j].pc = "betpaid"]
    /\ UNCHANGED <<monitorVars, reply, houseWalletAddress, ledger, bets, refunds, outbox, isProcessing>>

\* processSinglePayout resumes from await UPDATE bets SET payout_status = 'paid'
\* and returns; processed++ and the next payout
PayoutBetPaid(j) ==
    /\ jobs[j].kind = "payouts" /\ jobs[j].pc = "betpaid"
    /\ bets' = [bets EXCEPT ![payouts[jobs[j].list[jobs[j].k]].bet].payout_status = "paid"]
    /\ LET job == NextPayout([jobs[j] EXCEPT !.processed = @ + 1])
       IN /\ jobs' = [jobs EXCEPT ![j] = job]
          /\ isProcessing' = IF job.pc = "idle" THEN FALSE ELSE isProcessing
    /\ UNCHANGED <<monitorVars, reply, houseWalletAddress, ledger, refunds, payouts, outbox>>

\* the catch block resumes from await updatePayoutStatus(id, 'failed');
\* failed++ and the next payout
PayoutFailed(j) ==
    /\ jobs[j].kind = "payouts" /\ jobs[j].pc = "failing"
    /\ payouts' = updatePayoutStatus(payouts, jobs[j].list[jobs[j].k], "failed",
                                     0, jobs[j].error)
    /\ LET job == NextPayout([jobs[j] EXCEPT !.failed = @ + 1, !.error = "none"])
       IN /\ jobs' = [jobs EXCEPT ![j] = job]
          /\ isProcessing' = IF job.pc = "idle" THEN FALSE ELSE isProcessing
    /\ UNCHANGED <<monitorVars, reply, houseWalletAddress, ledger, bets, refunds, outbox>>

\* ------------------------------------------------ database queries that fail
\* an exception leaves processAllPayouts through its finally block
Rethrow(j) ==
    /\ jobs' = [jobs EXCEPT ![j] = [IdleJob EXCEPT !.ret = Thrown]]
    /\ isProcessing' = Finally(isProcessing)

\* await getPendingPayouts throws
PayoutsPendingFails(j) ==
    /\ jobs[j].kind = "payouts" /\ jobs[j].pc = "pending"
    /\ Rethrow(j)
    /\ UNCHANGED <<monitorVars, reply, houseWalletAddress, ledger, bets, refunds, payouts, outbox>>

\* await updatePayoutStatus(id, 'processing') throws: the catch block of
\* processAllPayouts goes on to write 'failed'
PayoutMarkFails(j) ==
    /\ jobs[j].kind = "payouts" /\ jobs[j].pc = "marking"
    /\ jobs' = [jobs EXCEPT ![j].pc = "failing", ![j].error = "query failed"]
    /\ UNCHANGED <<monitorVars, reply, houseWalletAddress, ledger, bets, refunds, payouts, outbox, isProcessing>>

\* await updatePayoutStatus(id, 'completed', signature) throws after the
\* transfer was confirmed: the catch block goes on to write 'failed'
PayoutCompleteFails(j) ==
    /\ jobs[j].kind = "payouts" /\ jobs[j].pc = "completing"
    /\ jobs' = [jobs EXCEPT ![j].pc = "failing", ![j].error = "query failed"]
    /\ UNCHANGED <<monitorVars, reply, houseWalletAddress, ledger, bets, refunds, payouts, outbox, isProcessing>>

\* await UPDATE bets SET payout_status = 'paid' throws after the Payout was
\* written completed: the catch block goes on to write 'failed'
PayoutBetPaidFails(j) ==
    /\ jobs[j].kind = "payouts" /\ jobs[j].pc = "betpaid"
    /\ jobs' = [jobs EXCEPT ![j].pc = "failing", ![j].error = "query failed"]
    /\ UNCHANGED <<monitorVars, reply, houseWalletAddress, ledger, bets, refunds, payouts, outbox, isProcessing>>

\* await updatePayoutStatus(id, 'failed') throws inside the catch block: the
\* exception leaves the loop and the invocation
PayoutFailedFails(j) ==
    /\ jobs[j].kind = "payouts" /\ jobs[j].pc = "failing"
    /\ Rethrow(j)
    /\ UNCHANGED <<monitorVars, reply, houseWalletAddress, ledger, bets, refunds, payouts, outbox>>

\* getDepositAddressWithKey without the catch of the decryption error: the
\* stored value is handed on as the key
getDepositAddressWithKey_KeepsKey(deps, d) == deps[d]

\* getDepositAddressWithKey: the row with its key decrypted; a stored key that
\* does not decrypt under the secret of the server (private_key
\* "undecryptable") comes back as null
getDepositAddressWithKey(deps, d) ==
    IF deps[d].private_key = "undecryptable"
    THEN [deps[d] EXCEPT !.private_key = "null"]
    ELSE deps[d]

\* a confirmed transaction that moves amount out of deposit address d
Debit(led, d, amount) ==
    Append(led, [from |-> "deposit", err |-> FALSE,
                 credits |-> [x \in DepositIds |-> IF x = d THEN 0 - amount ELSE 0]])

\* ------------------------------------------- PayoutService.processAllRefunds
\* SELECT ... FROM refunds ... WHERE r.status = 'pending' ORDER BY r.created_at
getPendingRefunds(rfs) ==
    SetToSeqAsc({n \in Indices(rfs) : rfs[n].status = "pending"})

updateRefundStatus(rfs, n, status) == [rfs EXCEPT ![n].status = status]

\* the for loop of processAllRefunds: the next refund, whose first await is
\* getDepositAddressWithKey; after the last one the return
NextRefund(job) ==
    IF job.k < Len(job.list) THEN [job EXCEPT !.pc = "key", !.k = job.k + 1]
    ELSE Return(job)

\* POST /admin/refunds/process: processAllRefunds up to its first await
RefundsStart(j) ==
    /\ jobs[j].pc = "idle"
    /\ jobs' = [jobs EXCEPT ![j] = [IdleJob EXCEPT !.kind = "refunds", !.pc = "pending",
                                                   !.ret = jobs[j].ret]]
    /\ UNCHANGED <<monitorVars, reply, houseWalletAddress, ledger, bets, refunds, payouts, outbox, isProcessing>>

\* resumes from await of the pending refunds and enters the loop
RefundsPending(j) ==
    /\ jobs[j].kind = "refunds" /\ jobs[j].pc = "pending"
    /\ jobs' = [jobs EXCEPT ![j] =
                  NextRefund([jobs[j] EXCEPT !.list = getPendingRefunds(refunds)])]
    /\ UNCHANGED <<monitorVars, reply, houseWalletAddress, ledger, bets, refunds, payouts, outbox, isProcessing>>

\* resumes from await getDepositAddressWithKey: without a key it throws into
\* the catch block, with one it calls processRefund, whose first await is the
\* write of 'processing'
RefundKey(j) ==
    /\ jobs[j].kind = "refunds" /\ jobs[j].pc = "key"
    /\ LET deposit == getDepositAddressWithKey(deposits, refunds[jobs[j].list[jobs[j].k]].dep)
       IN jobs' = [jobs EXCEPT ![j].pc = IF deposit.private_key = "null" THEN "failing"
                                        ELSE "marking"]
    /\ UNCHANGED <<monitorVars, reply, houseWalletAddress, ledger, bets, refunds, payouts, outbox, isProcessing>>

\* processRefund resumes from await UPDATE refunds SET status = 'processing';
\* the recipient key is valid; getBalance of the deposit address is asked next
RefundMarked(j) ==
    /\ jobs[j].kind = "refunds" /\ jobs[j].pc = "marking"
    /\ refunds' = updateRefundStatus(refunds, jobs[j].list[jobs[j].k], "processing")
    /\ jobs' = [jobs EXCEPT ![j].pc = "balance"]
    /\ UNCHANGED <<monitorVars, reply, houseWalletAddress, ledger, bets, payouts, outbox, isProcessing>>

\* processRefund resumes from await getBalance: no funds throws; otherwise
\* amountToSend = balance - fee (job.amount keeps the balance it is taken from)
RefundBalance(j) ==
    /\ jobs[j].kind = "refunds" /\ jobs[j].pc = "balance"
    /\ LET balance == getBalance(ledger, refunds[jobs[j].list[jobs[j].k]].dep)
       IN jobs' = [jobs EXCEPT ![j] =
                     IF balance <= 0 THEN [@ EXCEPT !.pc = "failing"]
                     ELSE [@ EXCEPT !.pc = "blockhash", !.amount = balance]]
    /\ UNCHANGED <<monitorVars, reply, houseWalletAddress, ledger, bets, refunds, payouts, outbox, isProcessing>>

\* processRefund resumes from await getLatestBlockhash: the transfer of
\* amountToSend from the deposit address to the refund's wallet is submitted,
\* or the query throws
RefundBlockhash(j) ==
    /\ jobs[j].kind = "refunds" /\ jobs[j].pc = "blockhash"
    /\ LET n == jobs[j].list[jobs[j].k]
       IN \E ok \in BOOLEAN :
            IF ok
            THEN /\ outbox' = Append(outbox, Submission("refund", n, refunds[n].dep,
                                                        refunds[n].wallet, jobs[j].amount, j))
                 /\ jobs' = [jobs EXCEPT ![j].pc = "send", ![j].tx = Len(outbox) + 1]
            ELSE /\ jobs' = [jobs EXCEPT ![j].pc = "failing"]
                 /\ UNCHANGED outbox
    /\ UNCHANGED <<monitorVars, reply, houseWalletAddress, ledger, bets, refunds, payouts, isProcessing>>

\* processRefund resumes from await sendAndConfirmTransaction: confirmed when
\* the address still holds what the transfer takes out, thrown otherwise
RefundSend(j) ==
    /\ jobs[j].kind = "refunds" /\ jobs[j].pc = "send"
    /\ LET d == outbox[jobs[j].tx].dep
       IN \E ok \in BOOLEAN :
            IF ok /\ getBalance(ledger, d) >= jobs[j].amount
            THEN /\ ledger' = Debit(ledger, d, jobs[j].amount)
                 /\ outbox' = [outbox EXCEPT ![jobs[j].tx].status = "landed"]
                 /\ jobs' = [jobs EXCEPT ![j].pc = "completing"]
            ELSE /\ outbox' = [outbox EXCEPT ![jobs[j].tx].status = "dropped"]
                 /\ jobs' = [jobs EXCEPT ![j].pc = "failing"]
                 /\ UNCHANGED ledger
    /\ UNCHANGED <<monitorVars, reply, houseWalletAddress, bets, refunds, payouts, isProcessing>>

\* processRefund resumes from await UPDATE refunds SET status = 'completed' and
\* returns the signature; processed++ and the next refund
RefundCompleted(j) ==
    /\ jobs[j].kind = "refunds" /\ jobs[j].pc = "completing"
    /\ refunds' = updateRefundStatus(refunds, jobs[j].list[jobs[j].k], "completed")
    /\ jobs' = [jobs EXCEPT ![j] = NextRefund([@ EXCEPT !.processed = @ + 1])]
    /\ UNCHANGED <<monitorVars, reply, houseWalletAddress, ledger, bets, payouts, outbox, isProcessing>>

\* the catch block resumes from await UPDATE refunds SET status = 'failed';
\* failed++ and the next refund
RefundFailed(j) ==
    /\ jobs[j].kind = "refunds" /\ jobs[j].pc = "failing"
    /\ refunds' = updateRefundStatus(refunds, jobs[j].list[jobs[j].k], "failed")
    /\ jobs' = [jobs EXCEPT ![j] = NextRefund([@ EXCEPT !.failed = @ + 1])]
    /\ UNCHANGED <<monitorVars, reply, houseWalletAddress, ledger, bets, payouts, outbox, isProcessing>>

\* ------------------------------------------ PayoutService.collectAllDeposits
\* SELECT id FROM deposit_addresses WHERE status = 'confirmed'
getConfirmedDeposits(deps) ==
    SetToSeqAsc({d \in DepositIds : deps[d].status = "confirmed"})

\* the for loop of collectAllDeposits: the next address, whose first await is
\* getDepositAddressWithKey; after the last one the return (processed counts
\* the addresses collected, failed the errors)
NextCollect(job) ==
    IF job.k < Len(job.list) THEN [job EXCEPT !.pc = "key", !.k = job.k + 1]
    ELSE Return(job)

\* POST /admin/collect-deposits: collectAllDeposits up to its first await (the
\* treasury key is configured)
CollectStart(j) ==
    /\ jobs[j].pc = "idle"
    /\ jobs' = [jobs EXCEPT ![j] = [IdleJob EXCEPT !.kind = "collect", !.pc = "pending",
                                                   !.ret = jobs[j].ret]]
    /\ UNCHANGED <<monitorVars, reply, houseWalletAddress, ledger, bets, refunds, payouts, outbox, isProcessing>>

\* resumes from await of the confirmed addresses and enters the loop
CollectPending(j) ==
    /\ jobs[j].kind = "collect" /\ jobs[j].pc = "pending"
    /\ jobs' = [jobs EXCEPT ![j] =
                  NextCollect([jobs[j] EXCEPT !.list = getConfirmedDeposits(deposits)])]
    /\ UNCHANGED <<monitorVars, reply, houseWalletAddress, ledger, bets, refunds, payouts, outbox, isProcessing>>

\* resumes from await getDepositAddressWithKey: without a key the error is
\* noted and the loop continues, with one it calls collectFromDepositAddress,
\* whose first await is getBalance
CollectKey(j) ==
    /\ jobs[j].kind = "collect" /\ jobs[j].pc = "key"
    /\ LET deposit == getDepositAddressWithKey(deposits, jobs[j].list[jobs[j].k])
       IN jobs' = [jobs EXCEPT ![j] =
                     IF deposit.private_key = "null"
                     THEN NextCollect([@ EXCEPT !.failed = @ + 1])
                     ELSE [@ EXCEPT !.pc = "balance"]]
    /\ UNCHANGED <<monitorVars, reply, houseWalletAddress, ledger, bets, refunds, payouts, outbox, isProcessing>>

\* the house wallets a PayoutService can be constructed with: none (null), an
\* address, or a string that is not an address
HouseWallets == {"none", "valid", "invalid"}

\* houseCut: the house percentage of amountToSend, rounded down, when a house
\* wallet is configured
houseCut(amountToSend, house) ==
    IF house # "none" THEN (amountToSend * HouseEdgePercent) \div 100 ELSE 0

\* the transaction with every configured house wallet taken for an address
collectTransfers_NoCheck(amountToSend, house) ==
    LET cut == houseCut(amountToSend, house)
    IN [master |-> amountToSend - cut, house |-> cut]

\* the transfers of the transaction that collectFromDepositAddress builds:
\* masterAmount to the treasury, and houseCut to the house wallet when one is
\* configured, the cut is positive and new PublicKey takes the address
collectTransfers(amountToSend, house) ==
    LET cut == houseCut(amountToSend, house)
    IN [master |-> amountToSend - cut,
        house |-> IF house = "valid" /\ cut > 0 THEN cut ELSE 0]

\* collectFromDepositAddress resumes from await getBalance: nothing to collect
\* returns null, and so does a balance that does not exceed the fee; otherwise
\* amountToSend = balance - fee
CollectBalanceAt(j, fee) ==
    /\ jobs[j].kind = "collect" /\ jobs[j].pc = "balance"
    /\ LET balance == getBalance(ledger, jobs[j].list[jobs[j].k])
       IN jobs' = [jobs EXCEPT ![j] =
                     IF balance <= 0 \/ balance - fee <= 0 THEN NextCollect(@)
                     ELSE [@ EXCEPT !.pc = "blockhash", !.amount = balance - fee]]
    /\ UNCHANGED <<monitorVars, reply, houseWalletAddress, ledger, bets, refunds, payouts, outbox, isProcessing>>

\* the same with amounts in units of 0.005 SOL, of which the fee is 0.002
CollectBalance(j) == CollectBalanceAt(j, 0)

\* collectFromDepositAddress resumes from await getLatestBlockhash: the sweep
\* of amountToSend out of the deposit address is submitted, or the query throws
\* and collectAllDeposits notes the error (it throws once MaxSweeps
\* transactions have been submitted)
CollectBlockhash(j) ==
    /\ jobs[j].kind = "collect" /\ jobs[j].pc = "blockhash"
    /\ LET d == jobs[j].list[jobs[j].k]
       IN \E ok \in BOOLEAN :
            IF ok /\ Len(outbox) < MaxSweeps
            THEN /\ LET t == collectTransfers(jobs[j].amount, houseWalletAddress)
                    IN outbox' = Append(outbox,
                                        [Submission("collect", d, d, "treasury", t.master, j)
                                           EXCEPT !.house = t.house])
                 /\ jobs' = [jobs EXCEPT ![j].pc = "send", ![j].tx = Len(outbox) + 1]
            ELSE /\ jobs' = [jobs EXCEPT ![j] = NextCollect([@ EXCEPT !.failed = @ + 1])]
                 /\ UNCHANGED outbox
    /\ UNCHANGED <<monitorVars, reply, houseWalletAddress, ledger, bets, refunds, payouts, isProcessing>>

\* collectFromDepositAddress resumes from await sendAndConfirmTransaction:
\* confirmed when the address still holds what the transfers take out
\* (collected++), thrown otherwise (the error is noted).  The fee is paid out of
\* what was not sent.
CollectSend(j) ==
    /\ jobs[j].kind = "collect" /\ jobs[j].pc = "send"
    /\ LET d == outbox[jobs[j].tx].dep
           out == outbox[jobs[j].tx].amount + outbox[jobs[j].tx].house
       IN \E ok \in BOOLEAN :
            IF ok /\ getBalance(ledger, d) >= out
            THEN /\ ledger' = Debit(ledger, d, out)
                 /\ outbox' = [outbox EXCEPT ![jobs[j].tx].status = "landed"]
                 /\ jobs' = [jobs EXCEPT ![j] = NextCollect([@ EXCEPT !.processed = @ + 1])]
            ELSE /\ outbox' = [outbox EXCEPT ![jobs[j].tx].status = "dropped"]
                 /\ jobs' = [jobs EXCEPT ![j] = NextCollect([@ EXCEPT !.failed = @ + 1])]
                 /\ UNCHANGED ledger
    /\ UNCHANGED <<monitorVars, reply, houseWalletAddress, bets, refunds, payouts, isProcessing>>

\* --------------------------------------------------------------- specification
Init ==
    /\ now = 0
    /\ races = [r \in Races |-> NoRace]
    /\ deposits = [d \in DepositIds |-> NoDeposit]
    /\ ledger = <<>>
    /\ bets = <<>>
    /\ refunds = <<>>
    /\ payouts = <<>>
    /\ processedSignatures = {}
    /\ cycles = [c \in CycleIds |-> IdleCycle]
    /\ isRunning = FALSE
    /\ InitTimer
    /\ InitDispatch
    /\ reply = "none"

Next ==
    \/ Start
    \/ TimerFire
    \/ \E c \in CycleIds : CycleBalance(c)
    \/ \E c \in CycleIds : CycleHistory(c)
    \/ \E c \in CycleIds : CycleTx(c)
    \/ \E c \in CycleIds : CycleProcessed(c)
    \/ \E c \in CycleIds : CycleCleanup(c)
    \/ \E r \in Races : CreateRace(r)
    \/ \E r \in Races : OpenRace(r)
    \/ \E r \in Races : CloseRace(r)
    \/ \E r \in Races, h \in Horses : Allocate(r, h)
    \/ \E f \in Senders, a \in Amounts, t \in SUBSET DepositIds : LedgerTransfer(f, a, t)
    \/ Tick

\* the reconciler with its overlapping cycles, the ledger, the clock, and the
\* admin opening and closing the race
Spec == Init /\ [][Next]_vars

\* ------------------------------------------------- settlement specification
\* The state the reconciler reaches after accepting the transfers inp[1..n],
\* one per deposit address, each through Allocate, LedgerTransfer and a cycle.
RECURSIVE PlacedBets(_, _)
PlacedBets(inp, r) ==
    IF inp = <<>> THEN <<>>
    ELSE LET n == Len(inp)
             before == PlacedBets(SubSeq(inp, 1, n - 1), r)
             dep == [NoDeposit EXCEPT !.race = r, !.horse = inp[n].horse]
         IN createBet(before, dep, n,
                      [fromAddress |-> inp[n].wallet, amount |-> inp[n].amount,
                       signature |-> n])

InitSettle ==
    \E n \in 0..MaxDeposits :
      \E inp \in [1..n -> [horse : HorsePicks, amount : BetAmounts, wallet : Wallets]] :
        \E st \in {"open", "closed"} :
          /\ now = 0
          /\ races = [r \in Races |-> [status |-> st, winner |-> 0,
                                       start_time |-> RaceStartOffset, horses |-> NumHorses]]
          /\ deposits = [d \in DepositIds |->
                           IF d <= n
                           THEN [status |-> "confirmed", race |-> "race_1",
                                 horse |-> inp[d].horse, amount |-> inp[d].amount,
                                 sig |-> d, wallet |-> inp[d].wallet,
                                 expires |-> DepositExpiry,
                                 private_key |-> "encrypted"]
                           ELSE NoDeposit]
          /\ ledger = [s \in 1..n |->
                         [from |-> inp[s].wallet, err |-> FALSE,
                          credits |-> [d \in DepositIds |->
                                         IF d = s THEN inp[s].amount ELSE 0]]]
          /\ bets = PlacedBets(inp, "race_1")
          /\ refunds = <<>>
          /\ payouts = <<>>
          /\ processedSignatures = 1..n
          /\ cycles = [c \in CycleIds |-> IdleCycle]
          /\ isRunning = TRUE
          /\ InitTimer
          /\ InitDispatch
          /\ reply = "none"

NextSettle ==
    \/ \E r \in Races : OpenRace(r)
    \/ \E r \in Races : CloseRace(r)
    \/ \E r \in Races, w \in HorsePicks : EndRace(r, w)

SpecSettle == InitSettle /\ [][NextSettle]_vars

\* ------------------------------------------- settle-request specification
\* what the body of a settle request may carry as winner: numbers below, in and
\* above the range, and a string that is not a number
WinnerInputs == {-1, 0, 1, 2, NumHorses, NumHorses + 1, NotANumber}

\* the settlement states, and the state in which the race does not exist
InitEnd == InitSettle \/ Init

NextEnd ==
    \/ \E r \in Races : OpenRace(r)
    \/ \E r \in Races : CloseRace(r)
    \/ \E r \in Races, w \in WinnerInputs : EndRace(r, w)

SpecEnd == InitEnd /\ [][NextEnd]_vars

\* ------------------------------------------------ payout specification
\* Races whose bets are all of 5 SOL on outcome 1, about to be ended (again and
\* again) with winner 1 while payout batches are requested
InitPayout ==
    /\ InitSettle
    /\ \A n \in Indices(bets) : bets[n].horse = 1 /\ bets[n].amount = 1000
    /\ races["race_1"].status = "closed"

NextPayoutStep ==
    \/ \E r \in Races : EndRace(r, 1)
    \/ \E j \in JobIds : PayoutsStart(j)
    \/ \E j \in JobIds : PayoutsPending(j)
    \/ \E j \in JobIds : PayoutsBalance(j)
    \/ \E j \in JobIds : PayoutMarked(j)
    \/ \E j \in JobIds : PayoutBlockhash(j)
    \/ \E j \in JobIds : PayoutSend(j)
    \/ \E j \in JobIds : PayoutCompleted(j)
    \/ \E j \in JobIds : PayoutBetPaid(j)
    \/ \E j \in JobIds : PayoutFailed(j)

SpecPayout == InitPayout /\ [][NextPayoutStep]_vars

\* ------------------------------------------------ refund specification
\* The state the reconciler reaches after turning away the transfers inp[1..n],
\* one per deposit address (below the minimum or above the maximum).
RECURSIVE QueuedRefunds(_)
QueuedRefunds(inp) ==
    IF inp = <<>> THEN <<>>
    ELSE LET n == Len(inp)
         IN queueRefund(QueuedRefunds(SubSeq(inp, 1, n - 1)), n,
                        [fromAddress |-> inp[n].wallet, amount |-> inp[n].amount,
                         signature |-> n])

InitRefund ==
    \E n \in 1..MaxDeposits :
      \E inp \in [1..n -> [amount : {1, 5000}, wallet : Wallets]] :
        /\ now = 0
        /\ races = [r \in Races |-> [status |-> "open", winner |-> 0,
                                     start_time |-> RaceStartOffset, horses |-> NumHorses]]
        /\ deposits = [d \in DepositIds |->
                         IF d <= n
                         THEN [status |-> DepositStatusFor(inp[d].amount, "open"),
                               race |-> "race_1", horse |-> 1,
                               amount |-> inp[d].amount, sig |-> d,
                               wallet |-> inp[d].wallet, expires |-> DepositExpiry,
                               private_key |-> "encrypted"]
                         ELSE NoDeposit]
        /\ ledger = [s \in 1..n |->
                       [from |-> inp[s].wallet, err |-> FALSE,
                        credits |-> [d \in DepositIds |->
                                       IF d = s THEN inp[s].amount ELSE 0]]]
        /\ bets = <<>>
        /\ refunds = QueuedRefunds(inp)
        /\ payouts = <<>>
        /\ processedSignatures = 1..n
        /\ cycles = [c \in CycleIds |-> IdleCycle]
        /\ isRunning = TRUE
        /\ InitTimer
        /\ InitDispatch
        /\ reply = "none"

NextRefundStep ==
    \/ \E f \in Senders, a \in Amounts, t \in SUBSET DepositIds : LedgerTransfer(f, a, t)
    \/ \E j \in JobIds : RefundsStart(j)
    \/ \E j \in JobIds : RefundsPending(j)
    \/ \E j \in JobIds : RefundKey(j)
    \/ \E j \in JobIds : RefundMarked(j)
    \/ \E j \in JobIds : RefundBalance(j)
    \/ \E j \in JobIds : RefundBlockhash(j)
    \/ \E j \in JobIds : RefundSend(j)
    \/ \E j \in JobIds : RefundCompleted(j)
    \/ \E j \in JobIds : RefundFailed(j)

SpecRefund == InitRefund /\ [][NextRefundStep]_vars

\* ------------------------------------------------ collection specification
\* confirmed addresses that each hold the 5 SOL of their bet
InitCollect ==
    /\ InitSettle
    /\ \A n \in Indices(bets) : bets[n].horse = 1 /\ bets[n].amount = 1000
    /\ races["race_1"].status = "closed"

NextCollectStep ==
    \/ \E j \in JobIds : CollectStart(j)
    \/ \E j \in JobIds : CollectPending(j)
    \/ \E j \in JobIds : CollectKey(j)
    \/ \E j \in JobIds : CollectBalance(j)
    \/ \E j \in JobIds : CollectBlockhash(j)
    \/ \E j \in JobIds : CollectSend(j)

SpecCollect == InitCollect /\ [][NextCollectStep]_vars

\* ------------------------------------------------- expiry specification
\* Waiting addresses allocated for an open race, each expiring after one or two
\* ticks; transfers of the minimum bet may land at any time.
InitExpiry ==
    \E n \in 1..MaxDeposits :
      \E e \in [1..n -> {DepositExpiry, DepositExpiry + 1}] :
        /\ now = 0
        /\ races = [r \in Races |-> [status |-> "open", winner |-> 0,
                                     start_time |-> RaceStartOffset, horses |-> NumHorses]]
        /\ deposits = [d \in DepositIds |->
                         IF d <= n
                         THEN [NoDeposit EXCEPT !.status = "waiting", !.race = "race_1",
                                                !.horse = 1, !.expires = e[d],
                                                !.private_key = "encrypted"]
                         ELSE NoDeposit]
        /\ ledger = <<>>
        /\ bets = <<>>
        /\ refunds = <<>>
        /\ payouts = <<>>
        /\ processedSignatures = {}
        /\ cycles = [c \in CycleIds |-> IdleCycle]
        /\ isRunning = TRUE
        /\ InitTimer
        /\ InitDispatch
        /\ reply = "none"

CycleStep(c) ==
    \/ CycleBalance(c)
    \/ CycleHistory(c)
    \/ CycleTx(c)
    \/ CycleProcessed(c)
    \/ CycleCleanup(c)

NextExpiry ==
    \/ TimerFire
    \/ \E c \in CycleIds : CycleStep(c)
    \/ \E d \in DepositIds : LedgerTransfer("walletA", MinBet, {d})
    \/ Tick

\* the interval timer keeps firing while the monitor runs, and every awaited
\* ledger query is answered
SpecExpiry ==
    /\ InitExpiry
    /\ [][NextExpiry]_vars
    /\ WF_vars(TimerFire)
    /\ \A c \in CycleIds : WF_vars(CycleStep(c))

\* ------------------------------------------- failing-query specification
\* The same addresses and transfers; a cycle starts only when the one before
\* has returned, and any ledger query of a cycle may fail.
CycleStepFails(c) ==
    \/ CycleBalanceFails(c)
    \/ CycleHistoryFails(c)
    \/ CycleTxFails(c)
    \/ CycleCleanupFails(c)

NextFaulty ==
    \/ (\A c \in CycleIds : cycles[c].pc = "idle") /\ TimerFire
    \/ \E c \in CycleIds : CycleStep(c)
    \/ \E c \in CycleIds : CycleStepFails(c)
    \/ \E d \in DepositIds : LedgerTransfer("walletA", MinBet, {d})
    \/ Tick

SpecFaulty == InitExpiry /\ [][NextFaulty]_vars

\* ------------------------------------------------ allocation specification
\* the horse_number values a request may carry: numbers around the range, text
\* without digits, and text that starts with a digit
HorseInputs == {0, 1, NumHorses, NumHorses + 1, NotANumber, NumericPrefix}

NextAllocate ==
    \/ \E r \in Races : CreateRace(r)
    \/ \E r \in Races : OpenRace(r)
    \/ \E r \in Races : CloseRace(r)
    \/ \E r \in Races, h \in HorseInputs, k \in Secrets : AllocateKey(r, h, k)
    \/ Tick

\* the admin, the clock and deposit-address requests with any horse_number, on
\* a server with any secret setting
SpecAllocate == Init /\ [][NextAllocate]_vars

\* -------------------------------------------------- deletion specification
\* The admin creates, opens and deletes the race while addresses are allocated,
\* transfers of the minimum bet land, the clock advances and the reconciler
\* runs its cycles, one after the other.
NextDelete ==
    \/ Start
    \/ (\A c \in CycleIds : cycles[c].pc = "idle") /\ TimerFire
    \/ \E c \in CycleIds : CycleStep(c)
    \/ \E r \in Races : CreateRace(r)
    \/ \E r \in Races : OpenRace(r)
    \/ \E r \in Races, h \in Horses : Allocate(r, h)
    \/ \E d \in DepositIds : LedgerTransfer("walletA", MinBet, {d})
    \/ \E r \in Races : DeleteRace(r)
    \/ Tick

SpecDelete == Init /\ [][NextDelete]_vars

\* -------------------------------------------------- shutdown specification
\* The running monitor of the expiry specification, and the stop signal.
NextStop ==
    \/ TimerFire
    \/ \E c \in CycleIds : CycleStep(c)
    \/ \E d \in DepositIds : LedgerTransfer("walletA", MinBet, {d})
    \/ Tick
    \/ Shutdown

SpecStop == InitExpiry /\ [][NextStop]_vars

\* ------------------------------------------------------ key specification
\* Every address has received one transfer: the minimum bet, accepted as a Bet
\* on horse 1, or half of it, turned away with a Refund queued.  The stored key
\* of each address either decrypts under the secret of the server or does not.
RECURSIVE KeyedBets(_, _)
KeyedBets(n, st) ==
    IF n = 0 THEN <<>>
    ELSE IF st[n] # "confirmed" THEN KeyedBets(n - 1, st)
    ELSE createBet(KeyedBets(n - 1, st),
                   [NoDeposit EXCEPT !.race = "race_1", !.horse = 1], n,
                   [fromAddress |-> "walletA", amount |-> MinBet, signature |-> n])

RECURSIVE KeyedRefunds(_, _)
KeyedRefunds(n, st) ==
    IF n = 0 THEN <<>>
    ELSE IF st[n] = "confirmed" THEN KeyedRefunds(n - 1, st)
    ELSE queueRefund(KeyedRefunds(n - 1, st), n,
                     [fromAddress |-> "walletA", amount |-> MinBet - 1, signature |-> n])

InitKeys ==
    \E st \in [DepositIds -> {"confirmed", "rejected_too_small"}] :
      \E ks \in [DepositIds -> {"encrypted", "undecryptable"}] :
        /\ now = 0
        /\ races = [r \in Races |-> [status |-> "open", winner |-> 0,
                                     start_time |-> RaceStartOffset, horses |-> NumHorses]]
        /\ deposits = [d \in DepositIds |->
                         [status |-> st[d], race |-> "race_1", horse |-> 1,
                          amount |-> IF st[d] = "confirmed" THEN MinBet ELSE MinBet - 1,
                          sig |-> d, wallet |-> "walletA", expires |-> DepositExpiry,
                          private_key |-> ks[d]]]
        /\ ledger = [s \in DepositIds |->
                       [from |-> "walletA", err |-> FALSE,
                        credits |-> [d \in DepositIds |->
                                       IF d = s THEN deposits[d].amount ELSE 0]]]
        /\ bets = KeyedBets(MaxDeposits, st)
        /\ refunds = KeyedRefunds(MaxDeposits, st)
        /\ payouts = <<>>
        /\ processedSignatures = DepositIds
        /\ cycles = [c \in CycleIds |-> IdleCycle]
        /\ isRunning = TRUE
        /\ InitTimer
        /\ InitDispatch
        /\ reply = "none"

\* one invocation of processAllRefunds at a time (slot 1) and one of
\* collectAllDeposits at a time (slot 2)
NextKeys ==
    \/ RefundsStart(1)
    \/ RefundsPending(1)
    \/ RefundKey(1)
    \/ RefundMarked(1)
    \/ RefundBalance(1)
    \/ RefundBlockhash(1)
    \/ RefundSend(1)
    \/ RefundCompleted(1)
    \/ RefundFailed(1)
    \/ CollectStart(2)
    \/ CollectPending(2)
    \/ CollectKey(2)
    \/ CollectBalance(2)
    \/ CollectBlockhash(2)
    \/ CollectSend(2)

SpecKeys == InitKeys /\ [][NextKeys]_vars

\* -------------------------------------------------- history specification
\* Address 1 is waiting and up to HistoryLimit + 1 transactions name it: "ok"
\* credits it the minimum bet, "failed" failed on the ledger, and "seen" credits
\* addresses 1 and 2 alike and has been processed for address 2, which it
\* confirmed.
InitHistory ==
    \E n \in 1..(HistoryLimit + 1) :
      \E kinds \in [1..n -> {"ok", "failed", "seen"}] :
        LET seen == {s \in 1..n : kinds[s] = "seen"}
            waiting == [NoDeposit EXCEPT !.status = "waiting", !.race = "race_1",
                                         !.horse = 1, !.expires = DepositExpiry,
                                         !.private_key = "encrypted"]
        IN /\ Cardinality(seen) <= 1
           /\ now = 0
           /\ races = [r \in Races |-> [status |-> "open", winner |-> 0,
                                        start_time |-> RaceStartOffset,
                                        horses |-> NumHorses]]
           /\ ledger = [s \in 1..n |->
                          [from |-> "walletA", err |-> (kinds[s] = "failed"),
                           credits |-> [d \in DepositIds |->
                                          IF d = 1 \/ (d = 2 /\ kinds[s] = "seen")
                                          THEN MinBet ELSE 0]]]
           /\ deposits = [d \in DepositIds |->
                            IF d = 1 THEN waiting
                            ELSE IF d = 2 /\ seen # {}
                            THEN [waiting EXCEPT !.status = "confirmed", !.amount = MinBet,
                                                 !.sig = CHOOSE s \in seen : TRUE,
                                                 !.wallet = "walletA"]
                            ELSE NoDeposit]
           /\ bets = IF seen = {} THEN <<>>
                     ELSE createBet(<<>>, waiting, 2,
                                    [fromAddress |-> "walletA", amount |-> MinBet,
                                     signature |-> CHOOSE s \in seen : TRUE])
           /\ refunds = <<>>
           /\ payouts = <<>>
           /\ processedSignatures = seen
           /\ cycles = [c \in CycleIds |-> IdleCycle]
           /\ isRunning = TRUE
           /\ InitTimer
           /\ InitDispatch
           /\ reply = "none"

\* the cycles of the monitor, one after the other, and the clock
NextHistory ==
    \/ (\A c \in CycleIds : cycles[c].pc = "idle") /\ TimerFire
    \/ \E c \in CycleIds : CycleStep(c)
    \/ Tick

SpecHistory == InitHistory /\ [][NextHistory]_vars

\* ---------------------------------------------------- order specification
\* checkSingleDeposit run from its first line to its return against a ledger
\* that does not change meanwhile; st holds the deposits, bets, refunds and
\* processed signatures
checkSingleDeposit(st, d) ==
    IF getBalance(ledger, d) <= 0 THEN st
    ELSE LET txs == getRecentTransactions(ledger, d, HistoryLimit)
             valid == {x \in Indices(txs) :
                         /\ txs[x] \notin st.ps
                         /\ parseSOLTransfer(ledger, txs[x], d) # NoTransfer}
         IN IF valid = {} THEN st
            ELSE LET x == CHOOSE v \in valid : \A y \in valid : v <= y
                     out == processDeposit(st.deposits, st.bets, st.refunds, races, d,
                                           parseSOLTransfer(ledger, txs[x], d))
                 IN [deposits |-> out.deposits, bets |-> out.bets,
                     refunds |-> out.refunds, ps |-> st.ps \cup {txs[x]}]

\* the for loop of checkDeposits over the waiting addresses taken in the order
\* given
RECURSIVE checkDepositsIn(_, _)
checkDepositsIn(order, st) ==
    IF order = <<>> THEN st
    ELSE checkDepositsIn(Tail(order), checkSingleDeposit(st, Head(order)))

\* the orders in which the addresses of S can be taken
Orders(S) ==
    {o \in [1..Cardinality(S) -> S] : \A x, y \in 1..Cardinality(S) : o[x] = o[y] => x = y}

WaitingNow == {d \in DepositIds : deposits[d].status = "waiting" /\ deposits[d].expires > now}

\* Every address is waiting for the open race and up to MaxTx transfers, each
\* to one or two of the addresses, are on the ledger.
InitOrder ==
    \E n \in 0..MaxTx :
      \E txs \in [1..n -> [from : Wallets, amount : {MinBet - 1, MinBet},
                            targets : {t \in SUBSET DepositIds :
                                          t # {} /\ Cardinality(t) <= 2}]] :
        /\ now = 0
        /\ races = [r \in Races |-> [status |-> "open", winner |-> 0,
                                     start_time |-> RaceStartOffset, horses |-> NumHorses]]
        /\ deposits = [d \in DepositIds |->
                         [NoDeposit EXCEPT !.status = "waiting", !.race = "race_1",
                                           !.horse = 1, !.expires = DepositExpiry,
                                           !.private_key = "encrypted"]]
        /\ ledger = [s \in 1..n |->
                       [from |-> txs[s].from, err |-> FALSE,
                        credits |-> [d \in DepositIds |->
                                       IF d \in txs[s].targets THEN txs[s].amount ELSE 0]]]
        /\ bets = <<>>
        /\ refunds = <<>>
        /\ payouts = <<>>
        /\ processedSignatures = {}
        /\ cycles = [c \in CycleIds |-> IdleCycle]
        /\ isRunning = TRUE
        /\ InitTimer
        /\ InitDispatch
        /\ reply = "none"

\* one whole cycle over the waiting addresses, taken in the given order
CycleInOrder(order) ==
    /\ order # <<>>
    /\ LET out == checkDepositsIn(order, [deposits |-> deposits, bets |-> bets,
                                          refunds |-> refunds, ps |-> processedSignatures])
       IN /\ deposits' = out.deposits
          /\ bets' = out.bets
          /\ refunds' = out.refunds
          /\ processedSignatures' = out.ps
    /\ UNCHANGED dispatchVars
    /\ UNCHANGED timerVars
    /\ UNCHANGED <<now, races, ledger, payouts, cycles, isRunning, reply>>

NextOrder == \E order \in Orders(WaitingNow) : CycleInOrder(order)

SpecOrder == InitOrder /\ [][NextOrder]_vars

\* ----------------------------------------------------- odds specification
\* Every address is waiting for the open race, each for one of two horses;
\* transfers of 2 or 3 units land on single addresses and the monitor polls,
\* one cycle after the other.
InitOdds ==
    \E hs \in [DepositIds -> HorsePicks] :
      /\ now = 0
      /\ races = [r \in Races |-> [status |-> "open", winner |-> 0,
                                   start_time |-> RaceStartOffset, horses |-> NumHorses]]
      /\ deposits = [d \in DepositIds |->
                       [NoDeposit EXCEPT !.status = "waiting", !.race = "race_1",
                                         !.horse = hs[d], !.expires = DepositExpiry,
                                         !.private_key = "encrypted"]]
      /\ ledger = <<>>
      /\ bets = <<>>
      /\ refunds = <<>>
      /\ payouts = <<>>
      /\ processedSignatures = {}
      /\ cycles = [c \in CycleIds |-> IdleCycle]
      /\ isRunning = TRUE
      /\ InitTimer
      /\ InitDispatch
      /\ reply = "none"

NextOdds ==
    \/ (\A c \in CycleIds : cycles[c].pc = "idle") /\ TimerFire
    \/ \E c \in CycleIds : CycleStep(c)
    \/ \E d \in DepositIds, a \in {MinBet, MinBet + 1} : LedgerTransfer("walletA", a, {d})
    \/ Tick

SpecOdds == InitOdds /\ [][NextOdds]_vars

\* ------------------------------------------------- parsing specification
\* Any transaction of up to MaxAccounts distinct accounts, with balances of 0
\* or 1 before and 0 to 2 after, is handed to parseSOLTransfer for the address
\* "deposit"; reply holds the call and what it returned.
InitParse ==
    \E n \in 0..MaxAccounts :
      \E keys \in [1..n -> Accounts], pre \in [1..n -> 0..1], post \in [1..n -> 0..2],
         kind \in TxKinds, sigs \in {<<1>>, <<2, 1>>} :
        /\ \A i, k \in 1..n : keys[i] = keys[k] => i = k
        /\ now = 0
        /\ races = [r \in Races |-> NoRace]
        /\ deposits = [d \in DepositIds |-> NoDeposit]
        /\ ledger = <<>>
        /\ bets = <<>>
        /\ refunds = <<>>
        /\ payouts = <<>>
        /\ processedSignatures = {}
        /\ cycles = [c \in CycleIds |-> IdleCycle]
        /\ isRunning = FALSE
        /\ InitTimer
        /\ InitDispatch
        /\ reply = [tx |-> [kind |-> kind, accountKeys |-> keys, preBalances |-> pre,
                            postBalances |-> post, signatures |-> sigs],
                    toAddress |-> "deposit", called |-> FALSE, result |-> NoTransfer]

ParseTransfer ==
    /\ ~reply.called
    /\ reply' = [reply EXCEPT !.called = TRUE,
                              !.result = parseSOLTransferOf(reply.tx, reply.toAddress)]
    /\ UNCHANGED dispatchVars
    /\ UNCHANGED timerVars
    /\ UNCHANGED <<now, races, deposits, ledger, bets, refunds, payouts,
                   processedSignatures, cycles, isRunning>>

NextParse == ParseTransfer

SpecParse == InitParse /\ [][NextParse]_vars

\* --------------------------------------------------- sweep specification
\* Amounts in lamports.  Addresses of every status hold nothing, the fee or a
\* little more than the fee; the service was constructed with no house wallet,
\* with one, or with a string that is not an address; collections are requested
\* one after the other.
SweepBalances == {0, Fee, Fee + 19, Fee + 20, Fee + 45}

SweepStatuses == {"waiting", "confirmed", "rejected_too_small", "expired"}

InitSweep ==
    \E st \in [DepositIds -> SweepStatuses], bal \in [DepositIds -> SweepBalances],
       house \in HouseWallets :
      /\ now = 0
      /\ races = [r \in Races |-> [status |-> "closed", winner |-> 0,
                                   start_time |-> RaceStartOffset, horses |-> NumHorses]]
      /\ deposits = [d \in DepositIds |->
                       [NoDeposit EXCEPT !.status = st[d], !.race = "race_1", !.horse = 1,
                                         !.expires = DepositExpiry,
                                         !.private_key = "encrypted"]]
      /\ ledger = [d \in DepositIds |->
                     [from |-> "walletA", err |-> FALSE,
                      credits |-> [x \in DepositIds |-> IF x = d THEN bal[d] ELSE 0]]]
      /\ bets = <<>>
      /\ refunds = <<>>
      /\ payouts = <<>>
      /\ processedSignatures = {}
      /\ cycles = [c \in CycleIds |-> IdleCycle]
      /\ isRunning = TRUE
      /\ InitTimer
      /\ isProcessing = FALSE
      /\ jobs = [j \in JobIds |-> IdleJob]
      /\ outbox = <<>>
      /\ houseWalletAddress = house
      /\ reply = "none"

NextSweep ==
    \/ CollectStart(1)
    \/ CollectPending(1)
    \/ CollectKey(1)
    \/ CollectBalanceAt(1, Fee)
    \/ CollectBlockhash(1)
    \/ CollectSend(1)

SpecSweep == InitSweep /\ [][NextSweep]_vars

\* --------------------------------------------------- batch specification
\* A completed race with one or two winning bets of the minimum and their
\* pending Payouts; the recipient of a Payout row is a wallet or a string that
\* is not an address.  Payout batches are requested again and again; the
\* treasury answers a balance of nothing or plenty, getLatestBlockhash and
\* sendAndConfirmTransaction answer or throw; the database answers.
TreasuryBalances == {0, MaxBet}

Recipients == {"walletA", "not_an_address"}

InitBatch ==
    \E n \in 1..MaxDeposits :
      \E w \in [1..n -> Recipients] :
        LET inp == [d \in 1..n |-> [horse |-> 1, amount |-> MinBet, wallet |-> "walletA"]]
            res == calculateWinnings(PlacedBets(inp, "race_1"), <<>>, "race_1", 1)
        IN /\ now = 0
           /\ races = [r \in Races |-> [status |-> "completed", winner |-> 1,
                                        start_time |-> RaceStartOffset,
                                        horses |-> NumHorses]]
           /\ deposits = [d \in DepositIds |->
                            IF d <= n
                            THEN [status |-> "confirmed", race |-> "race_1", horse |-> 1,
                                  amount |-> MinBet, sig |-> d, wallet |-> "walletA",
                                  expires |-> DepositExpiry, private_key |-> "encrypted"]
                            ELSE NoDeposit]
           /\ ledger = [x \in 1..n |->
                          [from |-> "walletA", err |-> FALSE,
                           credits |-> [d \in DepositIds |-> IF d = x THEN MinBet ELSE 0]]]
           /\ bets = [b \in 1..n |-> [res.bets[b] EXCEPT !.wallet = w[b]]]
           /\ refunds = <<>>
           /\ payouts = [q \in 1..n |-> [res.payouts[q] EXCEPT !.wallet = w[q]]]
           /\ processedSignatures = 1..n
           /\ cycles = [c \in CycleIds |-> IdleCycle]
           /\ isRunning = TRUE
           /\ InitTimer
           /\ InitDispatch
           /\ reply = "none"

\* the steps of a payout batch whose queries are answered
BatchStep(j) ==
    \/ PayoutsPending(j)
    \/ \E balance \in TreasuryBalances : PayoutsBalanceAt(j, balance)
    \/ PayoutMarked(j)
    \/ PayoutBlockhash(j)
    \/ PayoutSend(j)
    \/ PayoutCompleted(j)
    \/ PayoutBetPaid(j)
    \/ PayoutFailed(j)

\* the steps of a payout batch at which a database query throws
BatchStepFails(j) ==
    \/ PayoutsPendingFails(j)
    \/ PayoutMarkFails(j)
    \/ PayoutCompleteFails(j)
    \/ PayoutBetPaidFails(j)
    \/ PayoutFailedFails(j)

NextBatch ==
    \/ \E j \in JobIds : PayoutsStart(j)
    \/ \E j \in JobIds : BatchStep(j)

SpecBatch == InitBatch /\ [][NextBatch]_vars

\* ------------------------------------------- failing-database specification
\* The same batches over a database whose queries may throw.
NextDispatch ==
    \/ \E j \in JobIds : PayoutsStart(j)
    \/ \E j \in JobIds : BatchStep(j)
    \/ \E j \in JobIds : BatchStepFails(j)

SpecDispatch == InitBatch /\ [][NextDispatch]_vars

\* ------------------------------------------------ in-flight flag specification
\* Batches requested one after the other over the failing database; every
\* await of the invocation in flight settles, by an answer or by an exception.
NextFlag ==
    \/ PayoutsStart(1)
    \/ BatchStep(1)
    \/ BatchStepFails(1)

SpecFlag ==
    /\ InitBatch
    /\ [][NextFlag]_vars
    /\ WF_vars(BatchStep(1) \/ BatchStepFails(1))

\* --------------------------------------------------- timer specification
\* A monitor as its constructor leaves it, with one waiting address of an open
\* race; start() and stop() are called at any time, in any order, while the
\* interval fires (one cycle after the other), transfers land at the address
\* and the clock advances.
InitMonitor ==
    \E n \in {1} :
      /\ now = 0
      /\ races = [r \in Races |-> [status |-> "open", winner |-> 0,
                                   start_time |-> RaceStartOffset, horses |-> NumHorses]]
      /\ deposits = [d \in DepositIds |->
                       IF d <= n
                       THEN [NoDeposit EXCEPT !.status = "waiting", !.race = "race_1",
                                              !.horse = 1, !.expires = DepositExpiry,
                                              !.private_key = "encrypted"]
                       ELSE NoDeposit]
      /\ ledger = <<>>
      /\ bets = <<>>
      /\ refunds = <<>>
      /\ payouts = <<>>
      /\ processedSignatures = {}
      /\ cycles = [c \in CycleIds |-> IdleCycle]
      /\ isRunning = FALSE
      /\ InitTimer
      /\ InitDispatch
      /\ reply = "none"

NextMonitor ==
    \/ Start
    \/ Stop
    \/ (\A c \in CycleIds : cycles[c].pc = "idle") /\ TimerFire
    \/ \E c \in CycleIds : CycleStep(c)
    \/ LedgerTransfer("walletA", MinBet, {1})
    \/ Tick

SpecMonitor == InitMonitor /\ [][NextMonitor]_vars

\* ---------------------------------------------- classification specification
\* One waiting address that has just received one transfer, at the start of
\* the cycle that finds it; the admin may open and close the race meanwhile.
InitDeposit ==
    \E a \in ClassAmounts, f \in Wallets, h \in HorsePicks :
      \E st \in {"open", "closed"} :
        /\ now = 0
        /\ races = [r \in Races |-> [status |-> st, winner |-> 0,
                                     start_time |-> RaceStartOffset, horses |-> NumHorses]]
        /\ deposits = [d \in DepositIds |->
                         IF d = 1
                         THEN [NoDeposit EXCEPT !.status = "waiting", !.race = "race_1",
                                                !.horse = h, !.expires = DepositExpiry,
                                                !.private_key = "encrypted"]
                         ELSE NoDeposit]
        /\ ledger = <<[from |-> f, err |-> FALSE,
                       credits |-> [d \in DepositIds |-> IF d = 1 THEN a ELSE 0]]>>
        /\ bets = <<>>
        /\ refunds = <<>>
        /\ payouts = <<>>
        /\ processedSignatures = {}
        /\ cycles = [c \in CycleIds |-> IdleCycle]
        /\ isRunning = TRUE
        /\ InitTimer
        /\ InitDispatch
        /\ reply = "none"

NextDepositStep ==
    \/ TimerFire
    \/ CycleBalance(1)
    \/ CycleHistory(1)
    \/ CycleTx(1)
    \/ CycleProcessed(1)
    \/ \E r \in Races : OpenRace(r)
    \/ \E r \in Races : CloseRace(r)
    \/ \E r \in Races : EndRace(r, 1)

SpecDeposit == InitDeposit /\ [][NextDepositStep]_vars

\* ===================================================================== claims
InFlight == {c \in CycleIds : cycles[c].pc # "idle"}
BetsOf(d) == {n \in Indices(bets) : bets[n].dep = d}
RefundsOf(d) == {n \in Indices(refunds) : refunds[n].dep = d}
Rejected == {"rejected_too_small", "rejected_over_max", "rejected_race_closed"}

\* C1: one external transfer signature is converted into a Bet or a Refund at
\* most once: no two Bet/Refund records originate from the same signature.
C1_SignatureConsumedOnce ==
    /\ \A m, n \in Indices(bets) : m # n => bets[m].sig # bets[n].sig
    /\ \A m, n \in Indices(refunds) : m # n => refunds[m].sig # refunds[n].sig
    /\ \A m \in Indices(bets), n \in Indices(refunds) : bets[m].sig # refunds[n].sig

\* C2: once a deposit address has left waiting, no step changes its status again.
C2_StatusWriteOnce ==
    [][\A d \in DepositIds :
         deposits[d].status \notin {"none", "waiting"}
            => deposits'[d].status = deposits[d].status]_vars

\* C3: each deposit address has at most one Bet, and the address of every Bet
\* is confirmed.
C3_OneBetPerConfirmedAddress ==
    /\ \A d \in DepositIds : Cardinality(BetsOf(d)) <= 1
    /\ \A n \in Indices(bets) : deposits[bets[n].dep].status = "confirmed"

\* C4: when no cycle is in flight, every confirmed address has exactly one Bet,
\* carrying its event, outcome, and the sender, amount and signature of the
\* transfer.
C4_ConfirmedHasItsBet ==
    InFlight = {} =>
      \A d \in DepositIds :
        deposits[d].status = "confirmed" =>
          /\ Cardinality(BetsOf(d)) = 1
          /\ \A n \in BetsOf(d) :
                /\ bets[n].race = deposits[d].race
                /\ bets[n].horse = deposits[d].horse
                /\ bets[n].sig = deposits[d].sig
                /\ bets[n].wallet = ledger[bets[n].sig].from
                /\ bets[n].amount = ledger[bets[n].sig].credits[d]

\* C5: when no cycle is in flight, every rejected address has exactly one
\* Refund, for the amount and to the sender of the transfer, and no Bet.
C5_RejectedHasItsRefund ==
    InFlight = {} =>
      \A d \in DepositIds :
        deposits[d].status \in Rejected =>
          /\ Cardinality(RefundsOf(d)) = 1
          /\ \A n \in RefundsOf(d) :
                /\ refunds[n].wallet = ledger[refunds[n].sig].from
                /\ refunds[n].amount = ledger[refunds[n].sig].credits[d]
          /\ BetsOf(d) = {}

\* C7: reconciler cycles never overlap: at most one cycle is in flight.
C7_NoOverlappingCycles == Cardinality(InFlight) <= 1

\* C6: processDeposit writes the status of the reference ladder: below the
\* minimum rejected_too_small, else above the maximum rejected_over_max, else
\* race not open rejected_race_closed, else confirmed; the limits are accepted.
C6_Reference(amount, raceStatus) ==
    CASE amount < MinBet -> "rejected_too_small"
      [] amount >= MinBet /\ amount > MaxBet -> "rejected_over_max"
      [] amount >= MinBet /\ amount <= MaxBet /\ raceStatus # "open" -> "rejected_race_closed"
      [] amount >= MinBet /\ amount <= MaxBet /\ raceStatus = "open" -> "confirmed"

C6_StatusFollowsLadder ==
    [][\A d \in DepositIds :
         (deposits'[d] # deposits[d] /\ deposits'[d].status \notin {"waiting", "expired"})
            => deposits'[d].status =
                 C6_Reference(ledger[deposits'[d].sig].credits[d],
                              races[deposits[d].race].status)]_vars

\* an over-maximum transfer to a race that is not open was just classified
C6_Witness ==
    /\ cycles[1].pc = "processed"
    /\ deposits[1].status = "rejected_over_max"
    /\ races["race_1"].status = "closed"
    /\ Len(refunds) = 1

\* C8: a settle request on a completed event changes no Bet winnings, creates
\* no Payout and leaves the declared winner unchanged.
C8_SettlementOneTime ==
    [][\A r \in Races :
         races[r].status = "completed"
            => /\ races'[r].winner = races[r].winner
               /\ payouts' = payouts
               /\ bets' = bets]_vars

\* C9: every Bet on the declared winning outcome has exactly one Payout, of
\* amount bet.amount + winnings, and no Bet on a losing outcome has a Payout.
PayoutsOf(n) == {p \in Indices(payouts) : payouts[p].bet = n}

C9_OnePayoutPerWinningBet ==
    \A r \in Races :
      races[r].winner # 0 =>
        \A n \in Indices(bets) :
          bets[n].race = r =>
            IF bets[n].horse = races[r].winner
            THEN /\ Cardinality(PayoutsOf(n)) = 1
                 /\ \A p \in PayoutsOf(n) :
                      payouts[p].amount =
                        Frac(bets[n].amount * bets[n].winnings.d + bets[n].winnings.n,
                             bets[n].winnings.d)
            ELSE PayoutsOf(n) = {}

\* C10: calculateWinnings gives every winning bet
\* winnings = losingPool * (1 - houseEdge) * bet.amount / winningPool and a
\* Payout of bet.amount + winnings, and every losing bet winnings 0.
RECURSIVE C10_Sum(_)
C10_Sum(S) ==
    IF S = {} THEN 0
    ELSE LET n == CHOOSE x \in S : TRUE IN bets[n].amount + C10_Sum(S \ {n})

C10_Settled(r, w) ==
    LET all == {n \in Indices(bets) : bets[n].race = r}
        winners == {n \in all : bets[n].horse = w}
        totalPool == C10_Sum(all)
        winningPool == C10_Sum(winners)
        losingPool == totalPool - winningPool
        fresh == (Len(payouts) + 1)..Len(payouts')
    IN /\ \A n \in all \ winners : bets'[n].winnings = [n |-> 0, d |-> 1]
       /\ \A n \in winners :
            /\ winningPool > 0
            /\ bets'[n].winnings =
                 Frac(losingPool * (100 - HouseEdgePercent) * bets[n].amount,
                      100 * winningPool)
            /\ \E p \in fresh :
                 /\ payouts'[p].bet = n
                 /\ payouts'[p].amount =
                      Frac(bets[n].amount * bets'[n].winnings.d + bets'[n].winnings.n,
                           bets'[n].winnings.d)
       /\ Len(payouts') = Len(payouts) + Cardinality(winners)

FracAdd(a, b) ==
    LET g == GCD(a.d, b.d)
    IN Frac(a.n * (b.d \div g) + b.n * (a.d \div g), (a.d \div g) * b.d)

FracLeq(a, b) ==
    LET g == GCD(a.d, b.d)
    IN a.n * (b.d \div g) <= b.n * (a.d \div g)

RECURSIVE FracSum(_, _)
FracSum(f, S) ==
    IF S = {} THEN Frac(0, 1)
    ELSE LET x == CHOOSE y \in S : TRUE IN FracAdd(f[x], FracSum(f, S \ {x}))

BetsOfRace(r) == {n \in Indices(bets) : bets[n].race = r}
PayoutsOfRace(r) == {p \in Indices(payouts) : bets[payouts[p].bet].race = r}

\* C11: for every completed event the winnings of the winning bets sum to at
\* most losingPool * (1 - houseEdge), and the amounts of all its Payout records
\* sum to at most its totalPool.
C11_PayoutsWithinPool ==
    \A r \in Races :
      races[r].status = "completed" =>
        LET winners == {n \in BetsOfRace(r) : bets[n].horse = races[r].winner}
            totalPool == C10_Sum(BetsOfRace(r))
            losingPool == totalPool - C10_Sum(winners)
        IN /\ FracLeq(FracSum([n \in winners |-> bets[n].winnings], winners),
                      Frac(losingPool * (100 - HouseEdgePercent), 100))
           /\ FracLeq(FracSum([p \in PayoutsOfRace(r) |-> payouts[p].amount],
                              PayoutsOfRace(r)),
                      Frac(totalPool, 1))

C13_InvalidSettleRejected ==
    [][\A r \in Races, w \in WinnerInputs :
         (EndRace(r, w) /\ (races[r].status = "none" \/ w \notin 1..NumHorses))
            => UNCHANGED vars]_vars

SubmissionsFor(kind, ref) ==
    {o \in Indices(outbox) : outbox[o].kind = kind /\ outbox[o].ref = ref}

PayoutJobs == {j \in JobIds : jobs[j].kind = "payouts" /\ jobs[j].pc # "idle"}

\* C14: each Payout is submitted to the ledger at most once: only pending
\* Payouts are picked up, each is marked processing before its submission, and
\* a processing, completed or failed Payout is never submitted again.
C14_PayoutSubmittedOnce ==
    /\ [](\A p \in Indices(payouts) :
           /\ Cardinality(SubmissionsFor("payout", p)) <= 1
           /\ SubmissionsFor("payout", p) # {} => payouts[p].status # "pending")
    /\ [][\A p \in Indices(payouts) :
            Cardinality(SubmissionsFor("payout", p))' > Cardinality(SubmissionsFor("payout", p))
               => payouts[p].status = "processing"]_vars

\* the Payout of a later invocation: the one that failed is not picked up
C14_Witness ==
    /\ Len(payouts) = 1
    /\ payouts[1].status = "failed"
    /\ Cardinality(SubmissionsFor("payout", 1)) = 1
    /\ jobs[2].kind = "payouts" /\ jobs[2].pc = "balance" /\ jobs[2].list = <<>>
    /\ jobs[1].pc = "idle" /\ jobs[1].ret = [processed |-> 0, failed |-> 1]

\* C15: processAllPayouts is single-flight: an invocation that starts while
\* another is in flight returns {processed: 0, failed: 0}, reads and changes no
\* Payout and submits no transfer; so at most one invocation is in flight.
C15_PayoutsSingleFlight ==
    /\ [](Cardinality(PayoutJobs) <= 1)
    /\ [][\A j \in JobIds :
            (PayoutsStart(j) /\ PayoutJobs # {})
               => /\ jobs'[j] = [jobs[j] EXCEPT !.ret = [processed |-> 0, failed |-> 0]]
                  /\ UNCHANGED <<payouts, outbox, bets, ledger, isProcessing>>]_vars

\* invocation 2 was turned away while invocation 1 waits for its transfer
C15_Witness ==
    /\ PayoutJobs = {1}
    /\ jobs[1].pc = "send" /\ jobs[1].ret = NoReturn
    /\ jobs[2].pc = "idle" /\ jobs[2].ret = [processed |-> 0, failed |-> 0]
    /\ payouts # <<>>

\* the items an invocation has taken up so far
Handled(j) == {jobs[j].list[i] : i \in 1..jobs[j].k}

\* C16: processAllRefunds refuses re-entrancy: while one invocation is in flight
\* no other invocation takes up a Refund, so no Refund is handled by two
\* invocations.
C16_RefundsSingleFlight ==
    \A j1, j2 \in JobIds :
      (j1 # j2 /\ jobs[j1].kind = "refunds" /\ jobs[j2].kind = "refunds")
         => \/ Handled(j1) = {}
            \/ Handled(j2) = {}

\* C17: collectAllDeposits refuses re-entrancy: while one invocation is in
\* flight no other invocation sweeps an address, so no address has two sweep
\* transfers built from the same observed balance.
C17_CollectSingleFlight ==
    /\ \A j1, j2 \in JobIds :
         (j1 # j2 /\ jobs[j1].kind = "collect" /\ jobs[j2].kind = "collect")
            => \/ Handled(j1) = {}
               \/ Handled(j2) = {}
    /\ \A o1, o2 \in Indices(outbox) :
         (o1 # o2 /\ outbox[o1].kind = "collect" /\ outbox[o2].kind = "collect"
                  /\ outbox[o1].dep = outbox[o2].dep
                  /\ outbox[o1].status = "sent")
            => outbox[o2].status # "sent"

\* C18: the transfer of every completed Refund takes out of the refunded
\* deposit address (never out of the treasury) the Refund's recorded amount, of
\* which the recipient gets all but the fee, however many transfers the address
\* has received.
C18_RefundMovesRecordedAmount ==
    \A n \in Indices(refunds) :
      refunds[n].status = "completed" =>
        \E o \in SubmissionsFor("refund", n) :
          /\ outbox[o].status = "landed"
          /\ outbox[o].dep = refunds[n].dep
          /\ outbox[o].dep # 0
          /\ outbox[o].to = refunds[n].wallet
          /\ outbox[o].amount = refunds[n].amount

PastExpiry(d) == deposits[d].status = "waiting" /\ deposits[d].expires <= now

\* C19: a waiting address past its expiry with a zero balance is moved to
\* expired by the reconciler, whatever other addresses exist, and has no Bet
\* and no Refund (unless a transfer reaches it first).
C19_ExpiredEmptySwept ==
    \A d \in DepositIds :
      (PastExpiry(d) /\ getBalance(ledger, d) = 0)
         ~> \/ /\ deposits[d].status = "expired"
               /\ BetsOf(d) = {}
               /\ RefundsOf(d) = {}
            \/ getBalance(ledger, d) > 0

\* C20: a waiting address past its expiry that holds a positive balance
\* eventually leaves waiting (confirmed or rejected) with a Bet or a Refund.
C20_LateTransferHonored ==
    \A d \in DepositIds :
      (PastExpiry(d) /\ getBalance(ledger, d) > 0)
         ~> /\ deposits[d].status \in {"confirmed"} \cup Rejected
            /\ BetsOf(d) \cup RefundsOf(d) # {}

\* ------------------------------------------------------------ claims C21..C30
\* C21: a ledger query that fails while an address is checked does not end the
\* cycle: the addresses after it are still checked, and the address itself
\* stays waiting, with no Bet and no Refund, for the next cycle to check.
C21_QueryErrorLeavesWaiting ==
    /\ [](\A c \in CycleIds : \A d \in cycles[c].err :
             /\ deposits[d].status = "waiting"
             /\ BetsOf(d) = {}
             /\ RefundsOf(d) = {})
    /\ [][\A c \in CycleIds :
             (CycleStepFails(c) /\ cycles[c].pc # "cleanup"
                /\ cycles[c].i < Len(cycles[c].waiting))
             => /\ cycles'[c].pc \notin {"idle", "cleanup"}
                /\ cycles'[c].waiting = cycles[c].waiting
                /\ cycles'[c].i \in {cycles[c].i, cycles[c].i + 1}]_vars

\* C28: the expiry sweep marks an address expired only on a balance that was
\* read and is zero: when the balance query fails the address is left as it is.
C28_FailedBalanceNotExpired ==
    [][\A c \in CycleIds : CycleCleanupFails(c) => deposits' = deposits]_vars

\* C22: a deposit address is stored only for an event that exists and is open,
\* before its start, with an outcome from 1 to the number of outcomes of the
\* event; the request then adds exactly one record, waiting, expiring one
\* window from now, under an identifier not used before, and changes no other.
C22_AllocateOnlyWhenValid ==
    [][\A d \in DepositIds :
          (deposits[d].status = "none" /\ deposits'[d].status # "none")
          => LET dep == deposits'[d]
             IN /\ races[dep.race].status = "open"
                /\ now < races[dep.race].start_time
                /\ dep.horse \in 1..races[dep.race].horses
                /\ dep.status = "waiting"
                /\ dep.expires = now + DepositExpiry
                /\ \A x \in DepositIds \ {d} : deposits'[x] = deposits[x]]_vars

\* C26: on a server that has an encryption secret set, a deposit-address
\* request never stores a record whose key is the plaintext key.
C26_NoPlaintextKey ==
    [][\A r \in Races, h \in HorseInputs, k \in Secrets \ {"none"} :
          AllocateKey(r, h, k)
          => \A d \in DepositIds : deposits'[d].private_key = "plaintext"
                                     => deposits[d].private_key = "plaintext"]_vars

\* C23: the status of an event only moves forward along pending, open, closed,
\* completed (a closed or completed event is never open again), and the winner
\* of a completed event never changes.
StatusRank(st) ==
    CASE st = "pending" -> 1
      [] st = "open" -> 2
      [] st = "closed" -> 3
      [] st = "completed" -> 4
      [] OTHER -> 0

C23_StatusMonotonic ==
    [][\A r \in Races :
          races[r].status # "none"
          => /\ StatusRank(races'[r].status) >= StatusRank(races[r].status)
             /\ races[r].status = "completed" => races'[r].winner = races[r].winner]_vars

\* C24: an event that has a Bet is never deleted, whatever the reconciler is
\* doing: neither the event nor its outcomes are removed by any step, and a
\* delete request for it is refused with an error.
C24_RaceWithBetsKept ==
    [][\A r \in Races :
          BetsOfRace(r) # {}
          => /\ races'[r].status # "none"
             /\ races'[r].horses = races[r].horses
             /\ DeleteRace(r) => reply' = "Cannot delete race with existing bets"]_vars

C24_Witness ==
    \E r \in Races :
      /\ reply = "Cannot delete race with existing bets"
      /\ BetsOfRace(r) # {}
      /\ races[r].horses = NumHorses
      /\ \E c \in CycleIds : cycles[c].pc # "idle"

\* C25: a cycle in flight when the stop signal arrives runs to its end (it is
\* ended by its own last step and by nothing else), and once the monitor is
\* stopped no cycle starts.
C25_StopLetsCycleFinish ==
    /\ [][\A c \in CycleIds :
             (cycles[c].pc # "idle" /\ cycles'[c].pc = "idle") => CycleStep(c)]_vars
    /\ [][~isRunning
             => \A c \in CycleIds : cycles[c].pc = "idle" => cycles'[c].pc = "idle"]_vars

\* C27: in a batch of refunds or of collections, an item whose key does not
\* decrypt gets no transfer submitted (its Refund goes from pending to failed,
\* its collection is counted among the errors), and the batch goes on: when the
\* invocation returns every Refund of its list is completed or failed, and every
\* address of its list whose key decrypts has been collected from, found empty,
\* or counted as an error of its own.
NoKey(d) == deposits[d].private_key = "undecryptable"

C27_UndecryptableSkipped ==
    /\ [](/\ \A n \in Indices(refunds) :
               NoKey(refunds[n].dep)
               => /\ SubmissionsFor("refund", n) = {}
                  /\ refunds[n].status \in {"pending", "failed"}
          /\ \A d \in DepositIds : NoKey(d) => SubmissionsFor("collect", d) = {})
    /\ [][\A j \in JobIds :
             (jobs[j].pc # "idle" /\ jobs'[j].pc = "idle")
             => LET items == {jobs[j].list[x] : x \in Indices(jobs[j].list)}
                IN /\ jobs[j].kind = "refunds"
                      => \A n \in items :
                           /\ refunds'[n].status \in {"completed", "failed"}
                           /\ NoKey(refunds[n].dep) => refunds'[n].status = "failed"
                   /\ jobs[j].kind = "collect"
                      => LET skipped == {d \in items : NoKey(d)}
                         IN /\ jobs'[j].ret.failed >= Cardinality(skipped)
                            /\ \A d \in items \ skipped :
                                 \/ \E o \in SubmissionsFor("collect", d) :
                                       outbox'[o].job = j
                                 \/ getBalance(ledger', d) <= 0
                                 \/ jobs'[j].ret.failed > Cardinality(skipped)]_vars

\* a batch of two refunds has returned: the first, whose key does not decrypt,
\* is failed with nothing submitted; the second has been paid back
C27_Witness ==
    /\ jobs[1].pc = "idle"
    /\ jobs[1].ret = [processed |-> 1, failed |-> 1]
    /\ \E n1, n2 \in Indices(refunds) :
         /\ n1 < n2
         /\ NoKey(refunds[n1].dep)
         /\ refunds[n1].status = "failed"
         /\ SubmissionsFor("refund", n1) = {}
         /\ refunds[n2].status = "completed"
         /\ \E o \in SubmissionsFor("refund", n2) : outbox[o].status = "landed"

\* C29: for one address in one cycle, the transfer handed to processDeposit is
\* the first entry, newest first among the five newest that name the address,
\* that is not a processed signature and classifies as a positive transfer to
\* the address; its signature is then recorded and the cycle leaves the address;
\* no signature of an entry that does not classify is ever recorded.
Window(d) ==
    LET all == SetToSeqDesc({s \in Indices(ledger) : ledger[s].credits[d] # 0})
    IN IF Len(all) <= 5 THEN all ELSE SubSeq(all, 1, 5)

Classifies(s, d) == ~ledger[s].err /\ ledger[s].credits[d] > 0

Eligible(d) ==
    {x \in Indices(Window(d)) :
        Window(d)[x] \notin processedSignatures /\ Classifies(Window(d)[x], d)}

C29_FirstValidTransferOnly ==
    /\ [][\A c \in CycleIds :
             (cycles[c].pc = "tx" /\ cycles'[c].pc = "processed")
             => LET d == cycles[c].waiting[cycles[c].i]
                    s == cycles[c].txs[cycles[c].j]
                IN /\ Eligible(d) # {}
                   /\ s = Window(d)[CHOOSE x \in Eligible(d) : \A y \in Eligible(d) : x <= y]
                   /\ deposits'[d].sig = s
                   /\ deposits'[d].status # "waiting"]_vars
    /\ [][\A c \in CycleIds :
             (cycles[c].pc = "processed" /\ cycles'[c] # cycles[c])
             => /\ processedSignatures' =
                     processedSignatures \cup {cycles[c].txs[cycles[c].j]}
                /\ \/ cycles'[c].pc \in {"idle", "cleanup"}
                   \/ cycles'[c].i = cycles[c].i + 1]_vars
    /\ [][processedSignatures' # processedSignatures
             => \E c \in CycleIds : cycles[c].pc = "processed"]_vars
    /\ [](\A s \in processedSignatures : \E d \in DepositIds : Classifies(s, d))

\* the transfer handed over is the third entry of a history longer than the
\* window: the newest entry failed on the ledger and the next is a processed
\* signature
C29_Witness ==
    \E c \in CycleIds :
      /\ cycles[c].pc = "processed"
      /\ Len(ledger) > HistoryLimit
      /\ cycles[c].j = 3
      /\ ledger[cycles[c].txs[1]].err
      /\ cycles[c].txs[2] \in processedSignatures

\* C30: against one ledger and one set of event statuses, a cycle leaves the
\* same address records and creates the same Bets and Refunds (address, sender,
\* amount, signature) whatever the order in which it takes the waiting
\* addresses, also when one transaction credits two of them.
BetKeys(bs) ==
    {[dep |-> bs[n].dep, race |-> bs[n].race, horse |-> bs[n].horse,
      wallet |-> bs[n].wallet, amount |-> bs[n].amount, sig |-> bs[n].sig] :
       n \in Indices(bs)}

RefundKeys(rfs) ==
    {[dep |-> rfs[n].dep, wallet |-> rfs[n].wallet, amount |-> rfs[n].amount,
      sig |-> rfs[n].sig] : n \in Indices(rfs)}

OutcomeIn(order) ==
    LET out == checkDepositsIn(order, [deposits |-> deposits, bets |-> bets,
                                       refunds |-> refunds, ps |-> processedSignatures])
    IN [deposits |-> out.deposits, bets |-> BetKeys(out.bets),
        refunds |-> RefundKeys(out.refunds)]

C30_OrderIndependent ==
    \A o1, o2 \in Orders(WaitingNow) : OutcomeIn(o1) = OutcomeIn(o2)

\* ------------------------------------------------------------ claims C31..C40
\* C31: every Bet the reconciler creates carries odds = (amounts of the Bets of
\* the event before it + its amount) / (amounts of the earlier Bets on its
\* outcome + its amount); the divisor is positive, and the first Bet of an event
\* has odds 1.
C31_Amount(S) == C10_Sum(S)

C31_OddsAtPlacement ==
    [][bets' # bets
         => /\ Len(bets') = Len(bets) + 1
            /\ SubSeq(bets', 1, Len(bets)) = bets
            /\ LET b == bets'[Len(bets')]
                   before == {n \in Indices(bets) : bets[n].race = b.race}
                   same == {n \in before : bets[n].horse = b.horse}
               IN /\ C31_Amount(same) + b.amount > 0
                  /\ b.odds = Frac(C31_Amount(before) + b.amount,
                                   C31_Amount(same) + b.amount)
                  /\ before = {} => b.odds = Frac(1, 1)]_vars

\* a Bet of 3 units placed after a Bet of 2 units on the other outcome, at
\* odds 5/3
C31_Witness ==
    /\ Len(bets) >= 2
    /\ bets[1].horse # bets[2].horse
    /\ bets[1].amount = MinBet
    /\ bets[2].amount = MinBet + 1
    /\ bets[2].odds = Frac(2 * MinBet + 1, MinBet + 1)

\* C32: with the pool of an outcome, the other pools and the amount of the bet
\* unchanged, more money in the pool of another outcome changes the odds computed
\* for the next bettor on the outcome.  OddsWithMore is the odds after x more
\* units on the other outcome h2.
OddsWithMore(h, amount, h2, x) ==
    OddsAtPlacement(createBet(bets, [NoDeposit EXCEPT !.race = "race_1", !.horse = h2],
                              1, [fromAddress |-> "walletA", amount |-> x,
                                  signature |-> 0]),
                    "race_1", h, amount)

FracLess(a, b) == ~FracLeq(b, a)

\* C32 as stated: the odds strictly decrease
C32_OddsDecrease ==
    \A h, h2 \in HorsePicks : \A amount, x \in {MinBet, MinBet + 1} :
       h # h2 => FracLess(OddsWithMore(h, amount, h2, x),
                          OddsAtPlacement(bets, "race_1", h, amount))

\* C32 amended: the odds strictly increase
C32_OddsIncrease ==
    \A h, h2 \in HorsePicks : \A amount, x \in {MinBet, MinBet + 1} :
       h # h2 => FracLess(OddsAtPlacement(bets, "race_1", h, amount),
                          OddsWithMore(h, amount, h2, x))

\* a Bet on horse 1 placed after a Bet on horse 2, at odds above 1
C32_Witness ==
    /\ Len(bets) >= 2
    /\ bets[1].horse = 2
    /\ bets[2].horse = 1
    /\ FracLess(Frac(1, 1), bets[2].odds)

\* C33: parseSOLTransfer returns nothing for a missing or failed transaction,
\* for a target that is not among the accounts and for a target whose balance
\* did not grow; otherwise the amount is the growth of the target's balance,
\* the signature the first signature of the transaction, and the sender the
\* first account of the list, the target aside, whose balance decreased.
C33_ParsedTransfer ==
    reply.called =>
      LET tx == reply.tx
          r == reply.result
          at == {i \in Indices(tx.accountKeys) : tx.accountKeys[i] = reply.toAddress}
          delta(i) == tx.postBalances[i] - tx.preBalances[i]
          down == {i \in Indices(tx.accountKeys) \ at : delta(i) < 0}
      IN IF tx.kind \in {"missing", "failed"} \/ at = {} \/ \E i \in at : delta(i) <= 0
         THEN r = NoTransfer
         ELSE /\ \A i \in at : r.amount = delta(i)
              /\ r.signature = Head(tx.signatures)
              /\ \A i \in down : (\A k \in down : i <= k) => r.fromAddress = tx.accountKeys[i]

\* the target is credited 2, two wallets listed after it are debited, and the
\* sender is the wallet listed first
C33_Witness ==
    /\ reply.called
    /\ reply.tx.accountKeys = <<"deposit", "walletB", "walletA">>
    /\ reply.tx.preBalances = <<0, 1, 1>>
    /\ reply.tx.postBalances = <<2, 0, 0>>
    /\ reply.tx.signatures = <<2, 1>>
    /\ reply.result = [fromAddress |-> "walletB", amount |-> 2, signature |-> 2]

\* the balance that the invocation found at the address it is working on
Observed(j) == jobs[j].amount + Fee

\* C34: collectAllDeposits submits transfers only from confirmed addresses; the
\* transfers it builds for an address whose balance exceeds the fee move
\* balance - fee in all, the house percentage of it, rounded down, to the house
\* wallet and the rest to the treasury; an address whose balance does not
\* exceed the fee gets no transfer.
C34_CollectConfirmedOnly ==
    /\ [](\A o \in Indices(outbox) :
            outbox[o].kind = "collect" => deposits[outbox[o].dep].status = "confirmed")
    /\ [][\A j \in JobIds :
            /\ (jobs[j].kind = "collect" /\ jobs[j].pc = "blockhash" /\ outbox' # outbox)
                 => LET new == outbox'[Len(outbox')]
                        cut == houseCut(Observed(j) - Fee, houseWalletAddress)
                    IN /\ Observed(j) > Fee
                       /\ new.dep = jobs[j].list[jobs[j].k]
                       /\ new.house = cut
                       /\ new.amount + new.house = Observed(j) - Fee
            /\ (jobs[j].kind = "collect" /\ jobs[j].pc = "balance" /\ jobs'[j] # jobs[j]
                  /\ getBalance(ledger, jobs[j].list[jobs[j].k]) <= Fee)
                 => jobs'[j].pc # "blockhash"]_vars

\* C35: with a house wallet that is not an address, the transfer to the
\* treasury is the whole of balance - fee, and once it has landed the address
\* holds no more than the fee.
C35_InvalidHouseAllToMaster ==
    houseWalletAddress = "invalid" =>
      /\ \A j \in JobIds :
           (jobs[j].kind = "collect" /\ jobs[j].pc = "send")
              => outbox[jobs[j].tx].amount = Observed(j) - Fee
      /\ \A o \in Indices(outbox) :
           (outbox[o].kind = "collect" /\ outbox[o].status = "landed")
              => getBalance(ledger, outbox[o].dep) <= Fee

\* the transfers of Payout p that were confirmed
Landed(p) == {o \in SubmissionsFor("payout", p) : outbox[o].status = "landed"}

\* C36: a Payout whose dispatch throws is written failed with the message of
\* the error and the batch goes on to the next Payout, whatever balance the
\* treasury answered; when the invocation returns, every Payout it found
\* pending is completed with the signature of its confirmed transfer or failed,
\* and processed + failed is their number.
C36_BatchRunsToEnd ==
    [][\A j \in JobIds :
         /\ (jobs[j].kind = "payouts" /\ jobs[j].pc = "failing" /\ jobs'[j] # jobs[j])
              => LET p == jobs[j].list[jobs[j].k]
                 IN /\ payouts'[p].status = "failed"
                    /\ payouts'[p].error = jobs[j].error
                    /\ payouts'[p].error # "none"
                    /\ \/ jobs'[j].pc = "marking" /\ jobs'[j].k = jobs[j].k + 1
                       \/ jobs'[j].pc = "idle" /\ jobs[j].k = Len(jobs[j].list)
         /\ (jobs[j].kind = "payouts" /\ jobs[j].pc = "balance" /\ jobs'[j] # jobs[j])
              => (jobs[j].list # <<>> => jobs'[j].pc = "marking")
         /\ (jobs[j].kind = "payouts" /\ jobs[j].pc \notin {"idle", "pending"}
               /\ jobs'[j].pc = "idle")
              => LET list == jobs[j].list
                     done == {i \in Indices(list) : payouts'[list[i]].status = "completed"}
                     lost == {i \in Indices(list) : payouts'[list[i]].status = "failed"}
                 IN /\ done \cup lost = Indices(list)
                    /\ \A i \in done : /\ payouts'[list[i]].signature # 0
                                       /\ payouts'[list[i]].signature \in Landed(list[i])
                    /\ jobs'[j].ret.processed = Cardinality(done)
                    /\ jobs'[j].ret.failed = Cardinality(lost)
                    /\ jobs'[j].ret.processed + jobs'[j].ret.failed = Len(list)]_vars

\* the treasury answered 0; the first Payout, to a string that is not an
\* address, was written failed, and the second one was sent and completed
C36_Witness ==
    /\ jobs[1].kind = "payouts" /\ jobs[1].pc = "betpaid"
    /\ jobs[1].list = <<1, 2>> /\ jobs[1].k = 2
    /\ jobs[1].amount = 0
    /\ jobs[1].failed = 1
    /\ payouts[1].status = "failed" /\ payouts[1].error = "Invalid recipient address"
    /\ payouts[2].status = "completed" /\ payouts[2].signature \in Landed(2)

\* C38: a Payout whose transfer was confirmed is never written failed.
C38_ConfirmedNeverFailed ==
    \A p \in Indices(payouts) : Landed(p) # {} => payouts[p].status # "failed"

\* C39: isProcessing is set only while an invocation of processAllPayouts is in
\* flight, and it is always released again.
C39_FlagReleased ==
    /\ [](isProcessing => PayoutJobs # {})
    /\ (isProcessing ~> ~isProcessing)

\* the write of 'failed' threw inside the catch block, which left a Payout
\* at 'processing'; the flag came down and the next invocation was let in
C39_Witness ==
    /\ jobs[1].ret = Thrown
    /\ jobs[1].kind = "payouts" /\ jobs[1].pc = "balance"
    /\ isProcessing
    /\ \E p \in Indices(payouts) : payouts[p].status = "processing"

\* C37: no funds are stranded: an address that holds a positive balance
\* eventually has a Bet or a Refund and a terminal status; none waits for ever
\* with a positive balance.
C37_NoFundsStranded ==
    \A d \in DepositIds :
      (deposits[d].status = "waiting" /\ getBalance(ledger, d) > 0)
         ~> /\ deposits[d].status # "waiting"
            /\ BetsOf(d) \cup RefundsOf(d) # {}

\* C40: at most one polling timer is set: start() on a running monitor sets no
\* second timer and starts no cycle, stop() on a monitor that is not running
\* changes nothing, stop() leaves isRunning false, the handle null and no timer
\* set, and a start() after it sets exactly one timer.
C40_SingleTimer ==
    /\ Cardinality(timers) <= 1
    /\ isRunning => intervalHandle # 0 /\ timers = {intervalHandle}
    /\ ~isRunning => intervalHandle = 0 /\ timers = {}
    /\ isRunning => \A c \in CycleIds : start(Monitor, c, deposits, now) = Monitor
    /\ ~isRunning => stop(Monitor) = Monitor
    /\ LET m == stop(Monitor)
       IN /\ ~m.isRunning
          /\ m.intervalHandle = 0
          /\ m.timers = {}
          /\ \A c \in CycleIds :
               LET again == start(m, c, deposits, now)
               IN again.isRunning /\ again.timers = {again.intervalHandle}

\* started, stopped and started again while the first cycle was in flight: two
\* cycles and one timer
C40_Witness ==
    /\ isRunning
    /\ timers = {intervalHandle}
    /\ \A c \in CycleIds : cycles[c].pc # "idle"

====
